---- MODULE Spec2Model ----
(***************************************************************************)
(* Rule navigator backend: the chunk builder of PDFService                 *)
(* (extract_document_chunks), the citation assembler of VectorService      *)
(* (search), the page lookups of PDFService, the writers of VectorService  *)
(* and the batch run of scripts/index_documents.py, as state machines.     *)
(*                                                                         *)
(* Spec        one run of the generator extract_document_chunks over one   *)
(*             document; every loop iteration is one step.                 *)
(* FairSpec    the same run with the generator driven to exhaustion.       *)
(* SearchSpec  one call of search over the rows the vector index returns.  *)
(* LookupSpec  calls of find_text_positions and get_page_dimensions on a   *)
(*             directory of PDF files.                                     *)
(* ListingSpec list_documents on a directory, then get_pdf_path and the    *)
(*             pdf_url of search for the listed ids.                       *)
(* StoreSpec   add_chunk, add_chunks_batch and search on one collection.   *)
(* IndexSpec   one run of index_documents.                                 *)
(* ServingSpec one run of index_documents with calls of search and         *)
(*             find_text_positions arriving between its steps.             *)
(* ChatSpec    chat, chat_stream and delete_session requests on the        *)
(*             sessions of the chat router.                                *)
(***************************************************************************)
EXTENDS Integers, Sequences, FiniteSets, TLC

VARIABLES
    \* ---- the call of extract_document_chunks and the document it reads
    document_id,             \* argument
    chunk_size,              \* argument
    chunk_overlap,           \* argument (never read by the body)
    pages,                   \* the opened document: per page, the spans of
                             \* page.get_text("dict") in reading order
    pc,                      \* position of the generator
    page_num,                \* 0-indexed page of the running loop
    page_spans,              \* spans collected for the running page
    span_i,                  \* 1-based position of the loop over page_spans
    current_chunk_text,
    current_chunk_positions,
    current_length,
    chunk_index,
    yielded,                 \* the DocumentChunk objects yielded so far
    \* ---- history (not program state): where the accumulated spans came from
    current_chunk_src,       \* index in page_spans of each accumulated span
    current_carried,         \* how many leading accumulated spans were seeded
    yield_log,               \* per yielded chunk: its span texts, boxes,
                             \* source indices and seeded count
    \* ---- the call of search
    spc,                     \* position of search
    results,                 \* what collection.query returned
    citations,               \* the list search returns
    raised,                  \* the exception that left search, or "none"
    call_log,                \* history: the last two finished calls of search
    \* ---- PDFService and its page lookups
    pdf_directory,           \* the PDF files: file name -> pages
    lookup_call,             \* the last lookup made: operation and arguments
    lookup_out,              \* what that lookup returned or raised
    listing,                 \* what the last call of list_documents returned
    \* ---- VectorService
    collection,              \* the rows of the collection, in insertion order
    written,                 \* history: per row, the chunk and the writer
    \* ---- the run of index_documents
    documents,               \* list_documents(), with what extraction of each
                             \* document will do
    batch_size,              \* argument
    ipc,                     \* position of index_documents
    doc_i,                   \* 1-based position of the loop over documents
    gen_pos,                 \* chunks the running generator has yielded
    chunks_count,
    batch,
    total_chunks,
    failed_docs,
    attempted,               \* history: document ids whose extraction began
    add_log,                 \* history: the lists passed to add_chunks_batch
    \* ---- the chat router
    sessions,                \* session id -> the session's list of messages
    streams,                 \* the generators of chat_stream that are suspended:
                             \* request number -> frame
    chat_status,             \* how the last request to the router ended
    uuid_count,              \* history: ids drawn from uuid4
    request_count            \* history: chat and chat_stream requests received

chunkVars == <<document_id, chunk_size, chunk_overlap, pages, pc, page_num,
               page_spans, span_i, current_chunk_text, current_chunk_positions,
               current_length, chunk_index, yielded, current_chunk_src,
               current_carried, yield_log>>
searchVars == <<spc, results, citations, raised, call_log>>
lookupVars == <<pdf_directory, lookup_call, lookup_out, listing>>
storeVars == <<collection, written>>
indexVars == <<documents, batch_size, ipc, doc_i, gen_pos, chunks_count, batch,
               total_chunks, failed_docs, attempted, add_log>>
chatVars == <<sessions, streams, chat_status, uuid_count, request_count>>
vars == <<chunkVars, searchVars, lookupVars, storeVars, indexVars, chatVars>>

-----------------------------------------------------------------------------
(* Bounds and input sets *)

\* Longest document: spans plus page breaks.
MaxItems == 5

\* A page break between two pages of the document.
PageBreak == [text |-> "<page>", bbox |-> <<0, 0, 0, 0>>]

\* Longest document with whitespace-only spans.
MaxBlankItems == 3

\* Spans as the extractor reports them: text and bbox.  "b " keeps a
\* trailing blank.
RawSpans ==
    { [text |-> "a",     bbox |-> <<0, 0, 1, 1>>],
      [text |-> "b ",    bbox |-> <<1, 0, 3, 1>>],
      [text |-> "ccccc", bbox |-> <<0, 1, 5, 2>>] }

\* A span whose text is only whitespace.
BlankSpan == [text |-> " ", bbox |-> <<5, 1, 6, 2>>]

\* chunk_size with chunk_overlap: an overlap below and one above the three
\* spans the body carries
ChunkArguments ==
    { [chunk_size |-> 2, chunk_overlap |-> 1],
      [chunk_size |-> 4, chunk_overlap |-> 100] }
DocumentIds == {"CME-101"}

\* The page of the worked example: Rule, 101:, Position, Limits.
ExamplePage ==
    << [text |-> "Rule",     bbox |-> <<0, 0, 4, 1>>],
       [text |-> "101:",     bbox |-> <<5, 0, 9, 1>>],
       [text |-> "Position", bbox |-> <<0, 1, 8, 2>>],
       [text |-> "Limits",   bbox |-> <<9, 1, 15, 2>>] >>

SeqsUpTo(S, n) == UNION { [1..k -> S] : k \in 0..n }

\* The pages of a flat item sequence, split at its page breaks.
RECURSIVE SplitPages(_)
SplitPages(items) ==
    IF items = <<>> THEN << <<>> >>
    ELSE LET rest == SplitPages(Tail(items)) IN
         IF Head(items) = PageBreak
         THEN << <<>> >> \o rest
         ELSE << <<Head(items)>> \o Head(rest) >> \o Tail(rest)

Documents ==
    { SplitPages(s) : s \in SeqsUpTo(RawSpans \cup {PageBreak}, MaxItems) }
    \cup
    { SplitPages(s) :
        s \in SeqsUpTo({ [text |-> "a", bbox |-> <<0, 0, 1, 1>>], BlankSpan, PageBreak },
                       MaxBlankItems) }

-----------------------------------------------------------------------------
(* Helpers of extract_document_chunks *)

Whitespace == {" ", "\t", "\n", "\r"}

\* text.strip() is empty
IsBlank(text) == \A i \in 1..Len(text) : SubSeq(text, i, i) \in Whitespace

\* the spans kept for a page: those with text.strip() non-empty, text unstripped
RECURSIVE CollectSpans(_)
CollectSpans(raw) ==
    IF raw = <<>> THEN <<>>
    ELSE IF IsBlank(Head(raw).text) THEN CollectSpans(Tail(raw))
    ELSE <<Head(raw)>> \o CollectSpans(Tail(raw))

\* " ".join(texts)
RECURSIVE JoinText(_)
JoinText(texts) ==
    IF texts = <<>> THEN ""
    ELSE IF Len(texts) = 1 THEN texts[1]
    ELSE texts[1] \o " " \o JoinText(Tail(texts))

\* faulty variant: the running length counts the join separators
SumLenMut(texts) == Len(JoinText(texts))

\* faulty variant: the seeded spans are not counted in the running length
SumLenUnseededMut(texts) == 0

\* sum(len(t) for t in texts)
RECURSIVE SumLen(_)
SumLen(texts) ==
    IF texts = <<>> THEN 0 ELSE Len(Head(texts)) + SumLen(Tail(texts))

\* faulty variant: y0 and x1 taken from each other's slot
ToTextPositionMut(p) == [x0 |-> p[1], y0 |-> p[3], x1 |-> p[2], y1 |-> p[4]]

\* TextPosition(x0=p[0], y0=p[1], x1=p[2], y1=p[3])
ToTextPosition(p) == [x0 |-> p[1], y0 |-> p[2], x1 |-> p[3], y1 |-> p[4]]

ToPositions(bboxes) == [i \in 1..Len(bboxes) |-> ToTextPosition(bboxes[i])]

\* f"{document_id}-p{page_num + 1}-c{chunk_index}"
ChunkId(doc, page0, idx) ==
    doc \o "-p" \o ToString(page0 + 1) \o "-c" \o ToString(idx)

\* faulty variant: a chunk is emitted already when the size is reached
ShouldEmitAtSizeMut(length, text, size, acc) ==
    length + Len(text) >= size /\ acc # <<>>

\* faulty variant: the accumulator is emitted even when it is empty
ShouldEmitEmptyMut(length, text, size, acc) ==
    length + Len(text) > size

\* faulty variant: the incoming span's length is left out of the test
ShouldEmitMut(length, text, size, acc) ==
    length > size /\ acc # <<>>

\* the condition of the yield inside the span loop
ShouldEmit(length, text, size, acc) ==
    length + Len(text) > size /\ acc # <<>>

\* faulty variant: two spans are carried
OverlapMut(seq) ==
    IF Len(seq) > 2 THEN SubSeq(seq, Len(seq) - 1, Len(seq)) ELSE seq

\* seq[-3:] if len(seq) > 3 else seq
Overlap(seq) ==
    IF Len(seq) > 3 THEN SubSeq(seq, Len(seq) - 2, Len(seq)) ELSE seq

\* faulty variant: the accumulator is seeded across the page boundary
PageStartMut(acc) == Overlap(acc)

\* the accumulator a page starts with
PageStart(acc) == <<>>

\* faulty variant: the chunk left at the end of a page is not yielded
RemainingMut(acc) == FALSE

\* "if current_chunk_text:" after the span loop
Remaining(acc) == acc # <<>>

\* faulty variant: the index is not advanced
NextIndexMut(idx) == idx

\* chunk_index += 1
NextIndex(idx) == idx + 1

\* s.replace(old, new), for a non-empty old
RECURSIVE StrReplace(_, _, _)
StrReplace(s, old, new) ==
    IF Len(s) < Len(old) THEN s
    ELSE IF SubSeq(s, 1, Len(old)) = old
         THEN new \o StrReplace(SubSeq(s, Len(old) + 1, Len(s)), old, new)
         ELSE SubSeq(s, 1, 1) \o StrReplace(SubSeq(s, 2, Len(s)), old, new)

Digits == {"0", "1", "2", "3", "4", "5", "6", "7", "8", "9"}
LowerLetters == "abcdefghijklmnopqrstuvwxyz"
UpperLetters == "ABCDEFGHIJKLMNOPQRSTUVWXYZ"

CharAt(s, i) == SubSeq(s, i, i)
IsLower(c) == \E i \in 1..26 : CharAt(LowerLetters, i) = c
IsUpper(c) == \E i \in 1..26 : CharAt(UpperLetters, i) = c
ToUpper(c) ==
    IF IsLower(c)
    THEN CharAt(UpperLetters, CHOOSE i \in 1..26 : CharAt(LowerLetters, i) = c)
    ELSE c
ToLower(c) ==
    IF IsUpper(c)
    THEN CharAt(LowerLetters, CHOOSE i \in 1..26 : CharAt(UpperLetters, i) = c)
    ELSE c

\* stem.isdigit()
IsDigits(s) == Len(s) >= 1 /\ \A i \in 1..Len(s) : CharAt(s, i) \in Digits

\* re.match(r"^\d+[A-Z]$", stem)
IsRuleWithLetter(s) ==
    /\ Len(s) >= 2
    /\ IsUpper(CharAt(s, Len(s)))
    /\ IsDigits(SubSeq(s, 1, Len(s) - 1))

\* s.title() from character i on: a letter after a letter is lowered, any
\* other letter is raised
RECURSIVE TitleFrom(_, _, _)
TitleFrom(s, i, after_letter) ==
    IF i > Len(s) THEN ""
    ELSE IF IsLower(CharAt(s, i)) \/ IsUpper(CharAt(s, i))
    THEN (IF after_letter THEN ToLower(CharAt(s, i)) ELSE ToUpper(CharAt(s, i)))
            \o TitleFrom(s, i + 1, TRUE)
    ELSE CharAt(s, i) \o TitleFrom(s, i + 1, FALSE)

\* _format_title
FormatTitle(stem) ==
    IF stem = "CME-Bylaws" THEN "CME Group Bylaws"
    ELSE IF stem = "CME-Certificate-of-Incorporation"
    THEN "CME Certificate of Incorporation"
    ELSE IF stem = "CME_Definitions" THEN "CME Definitions"
    ELSE IF IsDigits(stem) THEN "CME Rule " \o stem
    ELSE IF IsRuleWithLetter(stem) THEN "CME Rule " \o stem
    ELSE "CME " \o TitleFrom(StrReplace(StrReplace(stem, "-", " "), "_", " "),
                             1, FALSE)

Stem(doc) == StrReplace(doc, "CME-", "")

DocumentChunk(doc, page0, idx, texts, bboxes) ==
    [ id             |-> ChunkId(doc, page0, idx),
      document_id    |-> doc,
      document_title |-> FormatTitle(Stem(doc)),
      page_number    |-> page0 + 1,
      chunk_index    |-> idx,
      text           |-> JoinText(texts),
      positions      |-> ToPositions(bboxes) ]

LogEntry(page0, texts, bboxes, src, carried) ==
    [ page |-> page0 + 1, texts |-> texts, bboxes |-> bboxes,
      src |-> src, carried |-> carried ]

-----------------------------------------------------------------------------
(* JSON text of the stored position metadata.                              *)
(* A JSON text is a sequence of tokens: the punctuation [ ] { } , : , the  *)
(* literal null, numbers as digit strings and strings in double quotes.    *)
(* Covered: null, non-negative integers, strings, objects of scalars and   *)
(* lists of scalars and of such objects.                                   *)

IsNumTok(tok) ==
    Len(tok) >= 1 /\ \A i \in 1..Len(tok) : SubSeq(tok, i, i) \in Digits

IsStrTok(tok) ==
    Len(tok) >= 2 /\ SubSeq(tok, 1, 1) = "\"" /\ SubSeq(tok, Len(tok), Len(tok)) = "\""

Unquote(tok) == SubSeq(tok, 2, Len(tok) - 1)

Quote(str) == "\"" \o str \o "\""

DigitValue(c) == CHOOSE n \in 0..9 : ToString(n) = c

RECURSIVE StrToNat(_)
StrToNat(tok) ==
    IF Len(tok) = 0 THEN 0
    ELSE 10 * StrToNat(SubSeq(tok, 1, Len(tok) - 1))
            + DigitValue(SubSeq(tok, Len(tok), Len(tok)))

\* decoded JSON values, one record shape for all of them
JValue(t, n, str, keys, vals, items) ==
    [t |-> t, n |-> n, s |-> str, keys |-> keys, vals |-> vals, items |-> items]
JNull == JValue("null", 0, "", <<>>, <<>>, <<>>)
JNum(n) == JValue("num", n, "", <<>>, <<>>, <<>>)
JStr(str) == JValue("str", 0, str, <<>>, <<>>, <<>>)
JObj(keys, vals) == JValue("obj", 0, "", keys, vals, <<>>)
JList(items) == JValue("list", 0, "", <<>>, <<>>, items)

ParseFail == [ok |-> FALSE, v |-> JNull, next |-> 0]
ParseOk(v, next) == [ok |-> TRUE, v |-> v, next |-> next]

ParseScalar(toks, i) ==
    IF i > Len(toks) THEN ParseFail
    ELSE IF IsNumTok(toks[i]) THEN ParseOk(JNum(StrToNat(toks[i])), i + 1)
    ELSE IF IsStrTok(toks[i]) THEN ParseOk(JStr(Unquote(toks[i])), i + 1)
    ELSE IF toks[i] = "null" THEN ParseOk(JNull, i + 1)
    ELSE ParseFail

\* the members of an object from the key at i on; AfterMember goes on after
\* the value sv of the member
RECURSIVE ParseMembers(_, _, _, _)
RECURSIVE AfterMember(_, _, _, _)
ParseMembers(toks, i, keys, vals) ==
    IF i + 2 > Len(toks) THEN ParseFail
    ELSE IF ~IsStrTok(toks[i]) \/ toks[i + 1] # ":" THEN ParseFail
    ELSE AfterMember(toks, Append(keys, Unquote(toks[i])), vals,
                     ParseScalar(toks, i + 2))

AfterMember(toks, keys, vals, sv) ==
    IF ~sv.ok \/ sv.next > Len(toks) THEN ParseFail
    ELSE IF toks[sv.next] = "}"
    THEN ParseOk(JObj(keys, Append(vals, sv.v)), sv.next + 1)
    ELSE IF toks[sv.next] = ","
    THEN ParseMembers(toks, sv.next + 1, keys, Append(vals, sv.v))
    ELSE ParseFail

\* toks[i] is "{"
ParseObject(toks, i) ==
    IF i + 1 <= Len(toks) /\ toks[i + 1] = "}"
    THEN ParseOk(JObj(<<>>, <<>>), i + 2)
    ELSE ParseMembers(toks, i + 1, <<>>, <<>>)

ParseItem(toks, i) ==
    IF i <= Len(toks) /\ toks[i] = "{" THEN ParseObject(toks, i)
    ELSE ParseScalar(toks, i)

\* the items of a list from the item at i on; AfterItem goes on after the
\* item it
RECURSIVE ParseItems(_, _, _)
RECURSIVE AfterItem(_, _, _)
ParseItems(toks, i, items) == AfterItem(toks, items, ParseItem(toks, i))

AfterItem(toks, items, it) ==
    IF ~it.ok \/ it.next > Len(toks) THEN ParseFail
    ELSE IF toks[it.next] = "]"
    THEN ParseOk(JList(Append(items, it.v)), it.next + 1)
    ELSE IF toks[it.next] = ","
    THEN ParseItems(toks, it.next + 1, Append(items, it.v))
    ELSE ParseFail

\* toks[i] is "["
ParseList(toks, i) ==
    IF i + 1 <= Len(toks) /\ toks[i + 1] = "]"
    THEN ParseOk(JList(<<>>), i + 2)
    ELSE ParseItems(toks, i + 1, <<>>)

ParseValue(toks) ==
    IF toks = <<>> THEN ParseFail
    ELSE IF toks[1] = "[" THEN ParseList(toks, 1)
    ELSE IF toks[1] = "{" THEN ParseObject(toks, 1)
    ELSE ParseScalar(toks, 1)

\* a parse that stops before the end of the text fails
WholeText(toks, r) ==
    IF r.ok /\ r.next = Len(toks) + 1 THEN r ELSE ParseFail

\* json.loads: ok = FALSE stands for JSONDecodeError
JsonLoads(toks) == WholeText(toks, ParseValue(toks))

\* faulty variant: y1 is written from x1
DumpPositionMut(p) ==
    << "{", Quote("x0"), ":", ToString(p.x0), ",",
            Quote("y0"), ":", ToString(p.y0), ",",
            Quote("x1"), ":", ToString(p.x1), ",",
            Quote("y1"), ":", ToString(p.x1), "}" >>

\* json.dumps({"x0": p.x0, "y0": p.y0, "x1": p.x1, "y1": p.y1})
DumpPosition(p) ==
    << "{", Quote("x0"), ":", ToString(p.x0), ",",
            Quote("y0"), ":", ToString(p.y0), ",",
            Quote("x1"), ":", ToString(p.x1), ",",
            Quote("y1"), ":", ToString(p.y1), "}" >>

RECURSIVE DumpItems(_)
DumpItems(ps) ==
    IF ps = <<>> THEN <<>>
    ELSE IF Len(ps) = 1 THEN DumpPosition(ps[1])
    ELSE DumpPosition(ps[1]) \o <<",">> \o DumpItems(Tail(ps))

\* positions_json = json.dumps([...])
JsonDumps(ps) == <<"[">> \o DumpItems(ps) \o <<"]">>

-----------------------------------------------------------------------------
(* Helpers of search *)

\* the value of key in a decoded object (the last occurrence wins)
HasKey(obj, key) == \E i \in 1..Len(obj.keys) : obj.keys[i] = key
Lookup(obj, key) ==
    obj.vals[CHOOSE i \in 1..Len(obj.keys) :
                /\ obj.keys[i] = key
                /\ \A j \in 1..Len(obj.keys) : obj.keys[j] = key => j <= i]

\* a float field takes a number, or a string that reads as a number
FloatOk(v) == v.t = "num" \/ (v.t = "str" /\ IsNumTok(v.s))
FloatOf(v) == IF v.t = "num" THEN v.n ELSE StrToNat(v.s)

PositionFields == <<"x0", "y0", "x1", "y1">>

\* TextPosition(**p): TypeError when p is no mapping, ValidationError when a
\* required field is missing or is no float
MakeTextPosition(p) ==
    IF p.t # "obj"
    THEN [exc |-> "TypeError", pos |-> ToTextPosition(<<0, 0, 0, 0>>)]
    ELSE IF \E i \in 1..4 : ~HasKey(p, PositionFields[i])
                             \/ ~FloatOk(Lookup(p, PositionFields[i]))
    THEN [exc |-> "ValidationError", pos |-> ToTextPosition(<<0, 0, 0, 0>>)]
    ELSE [exc |-> "none",
          pos |-> [x0 |-> FloatOf(Lookup(p, "x0")), y0 |-> FloatOf(Lookup(p, "y0")),
                   x1 |-> FloatOf(Lookup(p, "x1")), y1 |-> FloatOf(Lookup(p, "y1"))]]

\* what "for p in pos_data" iterates over; ok = FALSE is the TypeError of a
\* value that cannot be iterated
IterItems(v) ==
    IF v.t = "list" THEN [ok |-> TRUE, items |-> v.items]
    ELSE IF v.t = "obj"
    THEN [ok |-> TRUE, items |-> [i \in 1..Len(v.keys) |-> JStr(v.keys[i])]]
    ELSE IF v.t = "str"
    THEN [ok |-> TRUE, items |-> [i \in 1..Len(v.s) |-> JStr(SubSeq(v.s, i, i))]]
    ELSE [ok |-> FALSE, items |-> <<>>]

\* [TextPosition(**p) for p in pos_data]: the first exception ends it
RECURSIVE BuildPositions(_, _)
RECURSIVE AfterPosition(_, _, _)
BuildPositions(items, acc) ==
    IF items = <<>> THEN [exc |-> "none", positions |-> acc]
    ELSE AfterPosition(items, acc, MakeTextPosition(Head(items)))

AfterPosition(items, acc, r) ==
    IF r.exc # "none" THEN [exc |-> r.exc, positions |-> <<>>]
    ELSE BuildPositions(Tail(items), Append(acc, r.pos))

\* the exceptions "except (json.JSONDecodeError, TypeError)" catches
Caught(exc) == exc \in {"JSONDecodeError", "TypeError"}

\* the comprehension over pos_data
FromIter(iter) ==
    IF ~iter.ok THEN [exc |-> "TypeError", positions |-> <<>>]
    ELSE BuildPositions(iter.items, <<>>)

\* the body of the try statement, given what json.loads did
FromLoaded(loaded) ==
    IF ~loaded.ok THEN [exc |-> "JSONDecodeError", positions |-> <<>>]
    ELSE FromIter(IterItems(loaded.v))

\* the except clause: a caught exception leaves positions = []
Recover(built) ==
    IF built.exc = "none" THEN built
    ELSE IF Caught(built.exc) THEN [exc |-> "none", positions |-> <<>>]
    ELSE built

\* lines 151-159: positions of a row; exc is what leaves the try statement
ParsePositions(metadata) ==
    IF "positions" \notin DOMAIN metadata \/ metadata["positions"] = <<>>
    THEN [exc |-> "none", positions |-> <<>>]
    ELSE Recover(FromLoaded(JsonLoads(metadata["positions"])))

\* Distances are counted in 1/10000, scores before rounding in 1/20000 and
\* rounded scores in 1/1000.
\* faulty variant: the score is not clamped at 0
RelevanceMut(distance) == 20000 - distance

\* relevance_score = max(0, 1 - (distance / 2))
Relevance(distance) ==
    IF 20000 - distance > 0 THEN 20000 - distance ELSE 0

\* faulty variant: the score is cut to three decimal places
Round3Mut(score) == score \div 20

\* round(relevance_score, 3): to the nearest 1/1000, ties to the even one
Round3(score) ==
    LET q == score \div 20
        r == score % 20
    IN IF r < 10 THEN q
       ELSE IF r > 10 THEN q + 1
       ELSE IF q % 2 = 0 THEN q ELSE q + 1

\* faulty variant: a text of exactly 300 characters gets the marker too
ExcerptMut(document) ==
    IF Len(document) >= 300 THEN SubSeq(document, 1, 300) \o "..." ELSE document

\* document[:300] + "..." if len(document) > 300 else document
Excerpt(document) ==
    IF Len(document) > 300 THEN SubSeq(document, 1, 300) \o "..." ELSE document

\* faulty variant: the last five positions are kept
CapPositionsMut(positions) ==
    IF Len(positions) > 5
    THEN SubSeq(positions, Len(positions) - 4, Len(positions))
    ELSE positions

\* positions[:5]
CapPositions(positions) ==
    IF Len(positions) > 5 THEN SubSeq(positions, 1, 5) ELSE positions

\* f"/pdfs/{filename}" with filename = doc_id.replace("CME-", "") + ".pdf"
PdfUrl(doc_id) == "/pdfs/" \o StrReplace(doc_id, "CME-", "") \o ".pdf"

\* metadata[key] of lines 162-170: the keys read with a subscript
RequiredKeys == <<"document_id", "document_title", "page_number">>
MissingKey(metadata) == \E i \in 1..3 : RequiredKeys[i] \notin DOMAIN metadata

\* the Citation of row i, given its parsed positions
CitationOf(res, i, parsed) ==
    IF parsed.exc # "none" THEN [exc |-> parsed.exc, citation |-> <<>>]
    ELSE IF MissingKey(res.metadatas[i]) THEN [exc |-> "KeyError", citation |-> <<>>]
    ELSE [exc |-> "none",
          citation |->
            [ id              |-> res.ids[i],
              document_id     |-> res.metadatas[i]["document_id"],
              document_title  |-> res.metadatas[i]["document_title"],
              page_number     |-> res.metadatas[i]["page_number"],
              excerpt         |-> Excerpt(res.documents[i]),
              positions       |-> CapPositions(parsed.positions),
              relevance_score |->
                  Round3(Relevance(IF res.distances # <<>>
                                   THEN res.distances[i] ELSE 0)),
              pdf_url         |-> PdfUrl(res.metadatas[i]["document_id"]) ]]

\* one iteration of the loop over results["ids"][0]
BuildCitation(res, i) == CitationOf(res, i, ParsePositions(res.metadatas[i]))

\* faulty variant: the list of the previous call is carried on
InitialCitationsMut(prev) == prev

\* citations = [] at the start of a call; prev is what the previous call left
InitialCitations(prev) == <<>>

\* faulty variant: the newest citation is put in front
AppendCitationMut(acc, c) == <<c>> \o acc

\* citations.append(Citation(...))
AppendCitation(acc, c) == Append(acc, c)

\* the loop of search from row i on: an exception ends the call
RECURSIVE Assemble(_, _, _)
RECURSIVE AfterRow(_, _, _, _)
Assemble(res, i, acc) ==
    IF i > Len(res.ids) THEN [exc |-> "none", citations |-> acc]
    ELSE AfterRow(res, i, acc, BuildCitation(res, i))

AfterRow(res, i, acc, c) ==
    IF c.exc # "none" THEN [exc |-> c.exc, citations |-> <<>>]
    ELSE Assemble(res, i + 1, AppendCitation(acc, c.citation))

-----------------------------------------------------------------------------
(* Rows the vector index returns to search *)

\* Most rows of one query result.
MaxRows == 2

RECURSIVE Repeat(_, _)
Repeat(str, n) == IF n = 0 THEN "" ELSE str \o Repeat(str, n - 1)

\* stored chunk texts: short, exactly 300 characters, 301 characters
StoredTexts == { "Position limits apply.", Repeat("abcde", 60), Repeat("abcde", 60) \o "f" }

\* distances in 1/10000: 0.0, 0.0012, 0.0028, 1.0, 1.9988, 2.0, 3.0 (none of
\* them puts the score halfway between two thousandths, where the binary
\* value of the float decides the rounding)
Distances == {0, 12, 28, 10000, 19988, 20000, 30000}

PositionAt(n) == [x0 |-> n, y0 |-> n + 1, x1 |-> n + 2, y1 |-> n + 3]

\* position lists of stored chunks: none, one, three and six positions
PositionLists ==
    { <<>>, <<PositionAt(1)>>, [i \in 1..3 |-> PositionAt(i)],
      [i \in 1..6 |-> PositionAt(10 * i)] }

\* position metadata written by add_chunk and add_chunks_batch
WellFormedStored == { JsonDumps(ps) : ps \in PositionLists }

\* position metadata that is no serialized list of bounding boxes
NotJson == { <<"[", "{">>, <<"[", "1", ",", "]">>, <<"positions">> }
NotAList == { <<"5">>, <<"null">>, <<Quote("ab")>>,
              <<"{", Quote("a"), ":", "1", "}">> }
BadEntries == { <<"[", "1", "]">>, <<"[", "null", "]">>, <<"[", Quote("ab"), "]">> }
LackingFields ==
    { <<"[", "{", Quote("x0"), ":", "1", "}", "]">>,
      <<"[", "{", "}", "]">>,
      JsonDumps(<<PositionAt(1)>>)
          \o <<",">> \o <<"{", Quote("x0"), ":", "1", ",", Quote("y0"), ":", "2", "}">> }
MistypedFields ==
    { << "[", "{", Quote("x0"), ":", Quote("ab"), ",", Quote("y0"), ":", "2", ",",
                   Quote("x1"), ":", "3", ",", Quote("y1"), ":", "4", "}", "]" >>,
      << "[", "{", Quote("x0"), ":", "1", ",", Quote("y0"), ":", "2", ",",
                   Quote("x1"), ":", "3", ",", Quote("y1"), ":", "null", "}", "]" >> }
MalformedStored ==
    NotJson \cup NotAList \cup BadEntries \cup LackingFields \cup MistypedFields

\* the metadata add_chunk stores for a chunk of CME-101
Metadata(stored) ==
    [ document_id |-> "CME-101", document_title |-> "CME Rule 101",
      page_number |-> 1, chunk_index |-> 0, positions |-> stored ]

Without(metadata, key) == [k \in DOMAIN metadata \ {key} |-> metadata[k]]

MetadataKeys == {"document_id", "document_title", "page_number", "positions"}

Row(document, metadata, distance) ==
    [document |-> document, metadata |-> metadata, distance |-> distance]

BaseStored == JsonDumps(<<PositionAt(1)>>)

Rows ==
    { Row("Position limits apply.", Metadata(BaseStored), d) : d \in Distances }
    \cup { Row(t, Metadata(BaseStored), 0) : t \in StoredTexts }
    \cup { Row("Position limits apply.", Metadata(st), 0) :
              st \in WellFormedStored \cup MalformedStored }
    \cup { Row("Position limits apply.", Without(Metadata(BaseStored), k), 0) :
              k \in MetadataKeys }
    \cup { Row("Position limits apply.",
               Without(Metadata(<<"[", "{", "}", "]">>), "document_id"), 0) }

\* collection.query(...): ids, documents, metadatas, distances of the rows;
\* distances = <<>> stands for a result without distances
QueryResult(rows, with_distances) ==
    [ ids       |-> [i \in 1..Len(rows) |-> ChunkId("CME-101", 0, i - 1)],
      documents |-> [i \in 1..Len(rows) |-> rows[i].document],
      metadatas |-> [i \in 1..Len(rows) |-> rows[i].metadata],
      distances |-> IF with_distances
                    THEN [i \in 1..Len(rows) |-> rows[i].distance]
                    ELSE <<>> ]

QueryResults ==
    { QueryResult(rows, wd) : rows \in SeqsUpTo(Rows, MaxRows), wd \in BOOLEAN }

-----------------------------------------------------------------------------
(* The collection: its writers add_chunk and add_chunks_batch, and query *)

\* a row of the collection
StoredRow(id, document, metadata) ==
    [id |-> id, document |-> document, metadata |-> metadata]

\* collection.add(ids=..., documents=..., metadatas=...): the rows are put
\* after the rows the collection holds
CollectionAdd(coll, ids, docs, metadatas) ==
    coll \o [i \in 1..Len(ids) |-> StoredRow(ids[i], docs[i], metadatas[i])]

\* add_chunk: the lists handed to collection.add
AddChunkLists(chunk) ==
    [ ids       |-> <<chunk.id>>,
      documents |-> <<chunk.text>>,
      metadatas |-> << [ document_id    |-> chunk.document_id,
                         document_title |-> chunk.document_title,
                         page_number    |-> chunk.page_number,
                         chunk_index    |-> chunk.chunk_index,
                         positions      |-> JsonDumps(chunk.positions) ] >> ]

\* add_chunks_batch: the loop that fills ids, documents and metadatas
RECURSIVE BatchLists(_, _)
BatchLists(chunks, acc) ==
    IF chunks = <<>> THEN acc
    ELSE BatchLists(Tail(chunks),
            [ ids       |-> Append(acc.ids, Head(chunks).id),
              documents |-> Append(acc.documents, Head(chunks).text),
              metadatas |-> Append(acc.metadatas,
                    [ document_id    |-> Head(chunks).document_id,
                      document_title |-> Head(chunks).document_title,
                      page_number    |-> Head(chunks).page_number,
                      chunk_index    |-> Head(chunks).chunk_index,
                      positions      |-> JsonDumps(Head(chunks).positions) ]) ])

\* the collection after add_chunk(chunk)
AfterAddChunk(coll, chunk) ==
    CollectionAdd(coll, AddChunkLists(chunk).ids, AddChunkLists(chunk).documents,
                  AddChunkLists(chunk).metadatas)

\* the collection after add_chunks_batch(chunks): nothing is added for an
\* empty list
AfterAddChunksBatch(coll, chunks) ==
    IF chunks = <<>> THEN coll
    ELSE CollectionAdd(coll,
            BatchLists(chunks, [ids |-> <<>>, documents |-> <<>>, metadatas |-> <<>>]).ids,
            BatchLists(chunks, [ids |-> <<>>, documents |-> <<>>, metadatas |-> <<>>]).documents,
            BatchLists(chunks, [ids |-> <<>>, documents |-> <<>>, metadatas |-> <<>>]).metadatas)

\* the history entries of the rows a writer added
WrittenBy(chunks, writer) ==
    [i \in 1..Len(chunks) |-> [chunk |-> chunks[i], writer |-> writer]]

\* the queries put to the index, the limits and the document filters
QueryTexts == {"position limits", "margin"}
Limits == {1, MaxRows}
DocumentFilters == {"", "CME-101"}

\* The index is a black box that ranks the rows by their distance to the
\* query.  Here the distance of the k-th inserted row is fixed by the query:
\* "position limits" is nearest to the oldest row, "margin" to the newest
\* (in 1/10000, none of them halfway between two thousandths of score).
DistanceOf(query, k) ==
    IF query = "position limits" THEN 28 * (k - 1) ELSE 19988 - 28 * k

\* where={"document_id": document_filter}; no filter for a falsy argument
RECURSIVE Matching(_, _, _)
Matching(coll, k, document_filter) ==
    IF k > Len(coll) THEN <<>>
    ELSE IF document_filter = ""
            \/ coll[k].metadata["document_id"] = document_filter
    THEN <<k>> \o Matching(coll, k + 1, document_filter)
    ELSE Matching(coll, k + 1, document_filter)

Reverse(seq) == [i \in 1..Len(seq) |-> seq[Len(seq) + 1 - i]]

\* the insertion indices of the rows the index answers with, nearest first
Nearest(coll, query, limit, document_filter) ==
    LET ks == IF query = "position limits"
              THEN Matching(coll, 1, document_filter)
              ELSE Reverse(Matching(coll, 1, document_filter))
    IN SubSeq(ks, 1, IF Len(ks) < limit THEN Len(ks) ELSE limit)

\* collection.query(query_texts=[query], n_results=limit, where=...,
\*                  include=["documents", "metadatas", "distances"])
CollectionQuery(coll, query, limit, document_filter) ==
    LET ks == Nearest(coll, query, limit, document_filter) IN
    [ ids       |-> [i \in 1..Len(ks) |-> coll[ks[i]].id],
      documents |-> [i \in 1..Len(ks) |-> coll[ks[i]].document],
      metadatas |-> [i \in 1..Len(ks) |-> coll[ks[i]].metadata],
      distances |-> [i \in 1..Len(ks) |-> DistanceOf(query, ks[i])] ]

-----------------------------------------------------------------------------
(* The PDF directory and the page lookups of PDFService *)

\* a page of an opened document: page.rect and the spans of its text
Page(width, height, spans) == [width |-> width, height |-> height, spans |-> spans]

MarginPage ==
    Page(612, 792,
         << [text |-> "Initial margin",  bbox |-> <<72, 72, 150, 84>>],
            [text |-> "is set by",       bbox |-> <<72, 90, 120, 102>>],
            [text |-> "the margin rule", bbox |-> <<72, 108, 160, 120>>] >>)

RulePage == Page(612, 792, ExamplePage)

EmptyPage == Page(595, 842, <<>>)

\* the directories the service is set up with: file name -> pages
PdfDirectories ==
    { [f \in {} |-> <<>>],
      [f \in {"101.pdf"} |-> <<MarginPage>>],
      [f \in {"101.pdf"} |-> <<RulePage, MarginPage>>],
      [f \in {"101.pdf"} |-> <<RulePage, EmptyPage>>],
      [f \in {"101.pdf", "102.pdf"} |->
          IF f = "101.pdf" THEN <<MarginPage, RulePage>> ELSE <<RulePage>>],
      [f \in {"102.pdf"} |-> <<MarginPage, EmptyPage>>] }

\* arguments of the lookups
LookupDocumentIds == {"CME-101", "CME-999"}
PageNumbers == 0..2
SearchTexts == {"margin", "Rule"}

\* get_pdf_path(document_id).name
PdfFileName(doc) == StrReplace(doc, "CME-", "") \o ".pdf"

\* pdf_path.exists()
PdfExists(dir, doc) == PdfFileName(doc) \in DOMAIN dir

\* fitz.open(pdf_path), for a path that exists
OpenPdf(dir, doc) == dir[PdfFileName(doc)]

\* doc[i] with a 0-based index; a negative index counts from the end, and an
\* index outside -len(doc)..len(doc)-1 is an IndexError
PageIndexOk(doc, i) == i >= 0 - Len(doc) /\ i < Len(doc)
PageAt(doc, i) == IF i < 0 THEN doc[Len(doc) + i + 1] ELSE doc[i + 1]

\* needle occurs in text
Contains(text, needle) ==
    \E i \in 1..(Len(text) - Len(needle) + 1) :
        SubSeq(text, i, i + Len(needle) - 1) = needle

\* page.search_for(search_text): the rectangles of the occurrences, here one
\* per span that holds the text
RECURSIVE SearchFor(_, _)
SearchFor(spans, search_text) ==
    IF spans = <<>> THEN <<>>
    ELSE IF Contains(Head(spans).text, search_text)
    THEN <<Head(spans).bbox>> \o SearchFor(Tail(spans), search_text)
    ELSE SearchFor(Tail(spans), search_text)

\* the loop over text_instances: one TextPosition per rectangle
RectPositions(rects) ==
    [i \in 1..Len(rects) |->
        [x0 |-> rects[i][1], y0 |-> rects[i][2], x1 |-> rects[i][3], y1 |-> rects[i][4]]]

Returned(value) == [exc |-> "none", value |-> value]
Raised(exc) == [exc |-> exc, value |-> <<>>]

\* faulty variant: only the upper end of the range is tested
PageOutOfRangeMut(page_number, total) == page_number > total

\* page_number < 1 or page_number > len(doc), in find_text_positions
PageOutOfRange(page_number, total) == page_number < 1 \/ page_number > total

\* find_text_positions(document_id, page_number, search_text)
FindTextPositionsOf(dir, doc, page_number, search_text) ==
    IF ~PdfExists(dir, doc) THEN Returned(<<>>)
    ELSE IF PageOutOfRange(page_number, Len(OpenPdf(dir, doc))) THEN Returned(<<>>)
    ELSE IF ~PageIndexOk(OpenPdf(dir, doc), page_number - 1) THEN Raised("IndexError")
    ELSE Returned(RectPositions(
            SearchFor(PageAt(OpenPdf(dir, doc), page_number - 1).spans, search_text)))

\* get_page_dimensions(document_id, page_number)
GetPageDimensionsOf(dir, doc, page_number) ==
    IF ~PdfExists(dir, doc) THEN Raised("FileNotFoundError")
    ELSE IF page_number < 1 \/ page_number > Len(OpenPdf(dir, doc))
    THEN Raised("ValueError")
    ELSE Returned([ width       |-> PageAt(OpenPdf(dir, doc), page_number - 1).width,
                    height      |-> PageAt(OpenPdf(dir, doc), page_number - 1).height,
                    page_number |-> page_number,
                    total_pages |-> Len(OpenPdf(dir, doc)) ])

LookupCall(op, doc, page_number, search_text) ==
    [op |-> op, document_id |-> doc, page_number |-> page_number,
     search_text |-> search_text]

NoLookup == LookupCall("none", "", 0, "")

\* The files a directory may hold, in the order sorted() gives their paths
\* (upper-case letters before lower-case ones, "-" before "_").
FileNames ==
    << "101.pdf", "Bylaws.pdf", "CME-Bylaws.pdf", "CME_Definitions.pdf",
       "broken.pdf", "notes.txt" >>

\* a file fitz.open raises for
UnreadableFiles == {"broken.pdf"}

\* directories of such files; 101.pdf has two pages, any other file one
ListedDirectories ==
    { [f \in names |-> IF f = "101.pdf" THEN <<RulePage, MarginPage>>
                       ELSE <<MarginPage>>] :
        names \in SUBSET { FileNames[i] : i \in 1..Len(FileNames) } }

\* the file matches "*.pdf"
IsPdf(name) == Len(name) >= 4 /\ SubSeq(name, Len(name) - 3, Len(name)) = ".pdf"

\* pdf_file.stem, for a name with a suffix of three letters
FileStem(name) == SubSeq(name, 1, Len(name) - 4)

\* sorted(self.pdf_directory.glob("*.pdf"))
SortedGlob(dir) ==
    SelectSeq(FileNames, LAMBDA f : f \in DOMAIN dir /\ IsPdf(f))

\* DocumentInfo(...) of the loop of list_documents
DocumentInfo(dir, name) ==
    [ document_id    |-> "CME-" \o FileStem(name),
      title          |-> FormatTitle(FileStem(name)),
      filename       |-> name,
      total_pages    |-> Len(dir[name]),
      indexed_chunks |-> 0,
      pdf_url        |-> "/pdfs/" \o name ]

\* the loop of list_documents over the files from position i on: a file that
\* cannot be opened is skipped
RECURSIVE ListFrom(_, _, _)
ListFrom(dir, files, i) ==
    IF i > Len(files) THEN <<>>
    ELSE IF files[i] \in UnreadableFiles THEN ListFrom(dir, files, i + 1)
    ELSE <<DocumentInfo(dir, files[i])>> \o ListFrom(dir, files, i + 1)

\* list_documents(); a directory that does not exist lists like an empty one
ListDocumentsOf(dir) == ListFrom(dir, SortedGlob(dir), 1)

-----------------------------------------------------------------------------
(* extract_document_chunks *)

ChunkInit ==
    /\ document_id \in DocumentIds
    /\ \/ /\ pages \in Documents
          /\ \E a \in ChunkArguments :
                /\ chunk_size = a.chunk_size
                /\ chunk_overlap = a.chunk_overlap
       \/ /\ pages = <<ExamplePage>>
          /\ chunk_size = 10
          /\ chunk_overlap = 1
    /\ pc = "open"
    /\ page_num = 0
    /\ page_spans = <<>>
    /\ span_i = 1
    /\ current_chunk_text = <<>>
    /\ current_chunk_positions = <<>>
    /\ current_length = 0
    /\ chunk_index = 0
    /\ yielded = <<>>
    /\ current_chunk_src = <<>>
    /\ current_carried = 0
    /\ yield_log = <<>>

\* no call of search is modelled
SearchIdle ==
    /\ spc = "off"
    /\ results = QueryResult(<<>>, TRUE)
    /\ citations = <<>>
    /\ raised = "none"
    /\ call_log = <<>>

\* no lookup is modelled
LookupIdle ==
    /\ pdf_directory = [f \in {} |-> <<>>]
    /\ lookup_call = NoLookup
    /\ lookup_out = Returned(<<>>)
    /\ listing = <<>>

\* an empty collection that nothing writes to
StoreIdle ==
    /\ collection = <<>>
    /\ written = <<>>

\* no run of index_documents is modelled
IndexIdle ==
    /\ documents = <<>>
    /\ batch_size = 50
    /\ ipc = "off"
    /\ doc_i = 1
    /\ gen_pos = 0
    /\ chunks_count = 0
    /\ batch = <<>>
    /\ total_chunks = 0
    /\ failed_docs = <<>>
    /\ attempted = <<>>
    /\ add_log = <<>>

\* sessions = {} and no request to the router
ChatIdle ==
    /\ sessions = [sid \in {} |-> <<>>]
    /\ streams = [r \in {} |-> <<>>]
    /\ chat_status = "none"
    /\ uuid_count = 0
    /\ request_count = 0

\* doc = fitz.open(...); title = ...; chunk_index = 0
OpenDocument ==
    /\ pc = "open"
    /\ chunk_index' = 0
    /\ page_num' = 0
    /\ pc' = "page"
    /\ UNCHANGED <<document_id, chunk_size, chunk_overlap, pages, page_spans,
                   span_i, current_chunk_text, current_chunk_positions,
                   current_length, yielded, current_chunk_src,
                   current_carried, yield_log>>
    /\ UNCHANGED <<searchVars, lookupVars, storeVars, indexVars, chatVars>>

\* head of the page loop: collect the page's spans, reset the accumulator
BeginPage ==
    /\ pc = "page"
    /\ page_num < Len(pages)
    /\ page_spans' = CollectSpans(pages[page_num + 1])
    /\ current_chunk_text' = PageStart(current_chunk_text)
    /\ current_chunk_positions' = PageStart(current_chunk_positions)
    /\ current_length' = SumLen(PageStart(current_chunk_text))
    /\ current_chunk_src' = [i \in 1..Len(PageStart(current_chunk_text)) |-> 0]
    /\ current_carried' = Len(PageStart(current_chunk_text))
    /\ span_i' = 1
    /\ pc' = "span"
    /\ UNCHANGED <<document_id, chunk_size, chunk_overlap, pages, page_num,
                   chunk_index, yielded, yield_log>>
    /\ UNCHANGED <<searchVars, lookupVars, storeVars, indexVars, chatVars>>

\* one iteration of "for span in page_spans"
ProcessSpan ==
    /\ pc = "span"
    /\ span_i <= Len(page_spans)
    /\ LET text == page_spans[span_i].text
           bbox == page_spans[span_i].bbox
           emit == ShouldEmit(current_length, text, chunk_size, current_chunk_text)
           overlap_text == Overlap(current_chunk_text)
           overlap_positions == Overlap(current_chunk_positions)
           base_text == IF emit THEN overlap_text ELSE current_chunk_text
           base_positions == IF emit THEN overlap_positions
                             ELSE current_chunk_positions
           base_length == IF emit THEN SumLen(overlap_text) ELSE current_length
       IN /\ yielded' =
                IF emit
                THEN Append(yielded,
                            DocumentChunk(document_id, page_num, chunk_index,
                                          current_chunk_text,
                                          current_chunk_positions))
                ELSE yielded
          /\ yield_log' =
                IF emit
                THEN Append(yield_log,
                            LogEntry(page_num, current_chunk_text,
                                     current_chunk_positions,
                                     current_chunk_src, current_carried))
                ELSE yield_log
          /\ chunk_index' = IF emit THEN NextIndex(chunk_index) ELSE chunk_index
          /\ current_chunk_text' = Append(base_text, text)
          /\ current_chunk_positions' = Append(base_positions, bbox)
          /\ current_length' = base_length + Len(text)
          /\ current_chunk_src' =
                Append(IF emit
                       THEN SubSeq(current_chunk_src,
                                   Len(current_chunk_src) - Len(overlap_text) + 1,
                                   Len(current_chunk_src))
                       ELSE current_chunk_src,
                       span_i)
          /\ current_carried' = IF emit THEN Len(overlap_text) ELSE current_carried
    /\ span_i' = span_i + 1
    /\ UNCHANGED <<document_id, chunk_size, chunk_overlap, pages, pc, page_num,
                   page_spans>>
    /\ UNCHANGED <<searchVars, lookupVars, storeVars, indexVars, chatVars>>

\* after the span loop: yield the remaining chunk of the page
EndPage ==
    /\ pc = "span"
    /\ span_i > Len(page_spans)
    /\ IF Remaining(current_chunk_text)
       THEN /\ yielded' = Append(yielded,
                                 DocumentChunk(document_id, page_num, chunk_index,
                                               current_chunk_text,
                                               current_chunk_positions))
            /\ yield_log' = Append(yield_log,
                                   LogEntry(page_num, current_chunk_text,
                                            current_chunk_positions,
                                            current_chunk_src, current_carried))
            /\ chunk_index' = NextIndex(chunk_index)
       ELSE UNCHANGED <<yielded, yield_log, chunk_index>>
    /\ page_num' = page_num + 1
    /\ pc' = "page"
    /\ UNCHANGED <<document_id, chunk_size, chunk_overlap, pages, page_spans,
                   span_i, current_chunk_text, current_chunk_positions,
                   current_length, current_chunk_src, current_carried>>
    /\ UNCHANGED <<searchVars, lookupVars, storeVars, indexVars, chatVars>>

\* the page loop is exhausted: doc.close()
CloseDocument ==
    /\ pc = "page"
    /\ page_num >= Len(pages)
    /\ pc' = "done"
    /\ UNCHANGED <<document_id, chunk_size, chunk_overlap, pages, page_num,
                   page_spans, span_i, current_chunk_text,
                   current_chunk_positions, current_length, chunk_index,
                   yielded, current_chunk_src, current_carried, yield_log>>
    /\ UNCHANGED <<searchVars, lookupVars, storeVars, indexVars, chatVars>>

Init ==
    ChunkInit /\ SearchIdle /\ LookupIdle /\ StoreIdle /\ IndexIdle /\ ChatIdle

Next ==
    \/ OpenDocument
    \/ BeginPage
    \/ ProcessSpan
    \/ EndPage
    \/ CloseDocument

Spec == Init /\ [][Next]_vars

\* The generator driven to exhaustion, as the loop "for chunk in
\* extract_document_chunks(...)" of index_documents drives it: a step that
\* can be taken is taken.
FairSpec == Init /\ [][Next]_vars /\ WF_vars(Next)

-----------------------------------------------------------------------------
(* search *)

\* no run of extract_document_chunks is modelled
ChunkIdle ==
    /\ document_id = "CME-101"
    /\ chunk_size = 500
    /\ chunk_overlap = 100
    /\ pages = <<>>
    /\ pc = "off"
    /\ page_num = 0
    /\ page_spans = <<>>
    /\ span_i = 1
    /\ current_chunk_text = <<>>
    /\ current_chunk_positions = <<>>
    /\ current_length = 0
    /\ chunk_index = 0
    /\ yielded = <<>>
    /\ current_chunk_src = <<>>
    /\ current_carried = 0
    /\ yield_log = <<>>

SearchInit ==
    /\ ChunkIdle
    /\ LookupIdle
    /\ StoreIdle
    /\ IndexIdle
    /\ ChatIdle
    /\ spc = "call"
    /\ results \in QueryResults
    /\ citations = <<>>
    /\ raised = "none"
    /\ call_log = <<>>

\* a finished call: the rows it received and how it ended
CallEntry(res, out) ==
    [results |-> res, citations |-> out.citations, raised |-> out.exc]

\* the last two entries of a log
LastTwo(log) == IF Len(log) > 2 THEN SubSeq(log, Len(log) - 1, Len(log)) ELSE log

\* the body of search after collection.query returned
Search ==
    /\ spc = "call"
    /\ \E out \in { IF results.ids # <<>>
                     THEN Assemble(results, 1, InitialCitations(citations))
                     ELSE [exc |-> "none",
                           citations |-> InitialCitations(citations)] } :
          /\ citations' = out.citations
          /\ raised' = out.exc
          /\ spc' = IF out.exc = "none" THEN "returned" ELSE "raised"
          /\ call_log' = LastTwo(Append(call_log, CallEntry(results, out)))
    /\ UNCHANGED results
    /\ UNCHANGED <<chunkVars, lookupVars, storeVars, indexVars, chatVars>>

SearchNext == Search

SearchSpec == SearchInit /\ [][SearchNext]_vars

-----------------------------------------------------------------------------
(* find_text_positions and get_page_dimensions *)

LookupInit ==
    /\ ChunkIdle
    /\ SearchIdle
    /\ StoreIdle
    /\ IndexIdle
    /\ ChatIdle
    /\ pdf_directory \in PdfDirectories
    /\ lookup_call = NoLookup
    /\ lookup_out = Returned(<<>>)
    /\ listing = <<>>

FindTextPositions ==
    /\ \E doc \in LookupDocumentIds, page_number \in PageNumbers,
          search_text \in SearchTexts :
          /\ lookup_call' = LookupCall("find_text_positions", doc, page_number,
                                       search_text)
          /\ lookup_out' = FindTextPositionsOf(pdf_directory, doc, page_number,
                                               search_text)
    /\ UNCHANGED <<pdf_directory, listing>>
    /\ UNCHANGED <<chunkVars, searchVars, storeVars, indexVars, chatVars>>

GetPageDimensions ==
    /\ \E doc \in LookupDocumentIds, page_number \in PageNumbers :
          /\ lookup_call' = LookupCall("get_page_dimensions", doc, page_number, "")
          /\ lookup_out' = GetPageDimensionsOf(pdf_directory, doc, page_number)
    /\ UNCHANGED <<pdf_directory, listing>>
    /\ UNCHANGED <<chunkVars, searchVars, storeVars, indexVars, chatVars>>

LookupNext ==
    \/ FindTextPositions
    \/ GetPageDimensions

LookupSpec == LookupInit /\ [][LookupNext]_vars

-----------------------------------------------------------------------------
(* list_documents, and the file and the url derived from a listed id *)

ListingInit ==
    /\ ChunkIdle
    /\ SearchIdle
    /\ StoreIdle
    /\ IndexIdle
    /\ ChatIdle
    /\ pdf_directory \in ListedDirectories
    /\ lookup_call = NoLookup
    /\ lookup_out = Returned(<<>>)
    /\ listing = <<>>

ListDocuments ==
    /\ listing' = ListDocumentsOf(pdf_directory)
    /\ lookup_call' = LookupCall("list_documents", "", 0, "")
    /\ lookup_out' = Returned(ListDocumentsOf(pdf_directory))
    /\ UNCHANGED pdf_directory
    /\ UNCHANGED <<chunkVars, searchVars, storeVars, indexVars, chatVars>>

\* get_pdf_path of a listed document_id, as extract_document_chunks calls it
\* for the documents index_documents lists; the path is given by its file
\* name in the directory
GetPdfPath ==
    /\ \E k \in 1..Len(listing) :
          /\ lookup_call' = LookupCall("get_pdf_path", listing[k].document_id, 0, "")
          /\ lookup_out' = Returned(PdfFileName(listing[k].document_id))
    /\ UNCHANGED <<pdf_directory, listing>>
    /\ UNCHANGED <<chunkVars, searchVars, storeVars, indexVars, chatVars>>

\* "Build PDF URL" of search, for a row whose document_id is a listed one
BuildPdfUrl ==
    /\ \E k \in 1..Len(listing) :
          /\ lookup_call' = LookupCall("pdf_url", listing[k].document_id, 0, "")
          /\ lookup_out' = Returned(PdfUrl(listing[k].document_id))
    /\ UNCHANGED <<pdf_directory, listing>>
    /\ UNCHANGED <<chunkVars, searchVars, storeVars, indexVars, chatVars>>

ListingNext ==
    \/ ListDocuments
    \/ GetPdfPath
    \/ BuildPdfUrl

ListingSpec == ListingInit /\ [][ListingNext]_vars

-----------------------------------------------------------------------------
(* add_chunk, add_chunks_batch and search on one collection *)

\* Most rows the collection holds.
MaxStored == 2

BoxAt(n) == <<n, n + 1, n + 2, n + 3>>

\* chunks handed to the writers: three, six and no positions
SampleChunks ==
    { DocumentChunk("CME-101", 1, 1, <<"a", "b ", "ccccc">>,
                    <<BoxAt(1), BoxAt(2), BoxAt(3)>>),
      DocumentChunk("CME-Bylaws", 0, 0, [i \in 1..6 |-> "a"],
                    [i \in 1..6 |-> BoxAt(10 * i)]),
      DocumentChunk("CME-102", 0, 0, <<Repeat("abcde", 60) \o "f">>, <<>>) }

StoredIds == { collection[k].id : k \in 1..Len(collection) }

\* lists of chunks with different ids, none of them stored yet
FreshBatches ==
    { cs \in SeqsUpTo(SampleChunks, 2) :
        /\ \A i \in 1..Len(cs) : cs[i].id \notin StoredIds
        /\ \A i, j \in 1..Len(cs) : i # j => cs[i].id # cs[j].id }

StoreInit ==
    /\ ChunkIdle
    /\ LookupIdle
    /\ IndexIdle
    /\ ChatIdle
    /\ collection = <<>>
    /\ written = <<>>
    /\ spc = "idle"
    /\ results = QueryResult(<<>>, TRUE)
    /\ citations = <<>>
    /\ raised = "none"
    /\ call_log = <<>>

AddChunk ==
    /\ Len(collection) < MaxStored
    /\ \E chunk \in SampleChunks :
          /\ chunk.id \notin StoredIds
          /\ collection' = AfterAddChunk(collection, chunk)
          /\ written' = written \o WrittenBy(<<chunk>>, "add_chunk")
    /\ UNCHANGED <<chunkVars, searchVars, lookupVars, indexVars, chatVars>>

AddChunksBatch ==
    /\ \E chunks \in FreshBatches :
          /\ Len(collection) + Len(chunks) <= MaxStored
          /\ collection' = AfterAddChunksBatch(collection, chunks)
          /\ written' = written \o WrittenBy(chunks, "add_chunks_batch")
    /\ UNCHANGED <<chunkVars, searchVars, lookupVars, indexVars, chatVars>>

\* faulty variant: a query takes the oldest row out of the collection
AfterQueryMut(coll) == IF coll = <<>> THEN coll ELSE Tail(coll)

\* the collection after collection.query(...): a query writes nothing
AfterQuery(coll) == coll

\* the head of search: the filter is built and the collection is queried
Query ==
    /\ spc \in {"idle", "returned", "raised"}
    /\ \E query \in QueryTexts, limit \in Limits,
          document_filter \in DocumentFilters :
          results' = CollectionQuery(collection, query, limit, document_filter)
    /\ collection' = AfterQuery(collection)
    /\ spc' = "call"
    /\ UNCHANGED <<citations, raised, call_log, written>>
    /\ UNCHANGED <<chunkVars, lookupVars, indexVars, chatVars>>

StoreNext ==
    \/ AddChunk
    \/ AddChunksBatch
    \/ Query
    \/ Search

StoreSpec == StoreInit /\ [][StoreNext]_vars

-----------------------------------------------------------------------------
(* index_documents *)

\* Most documents of one run.
MaxDocs == 3

\* the document_id of the k-th listed file
ListedId(k) == "CME-" \o ToString(100 + k)

\* the chunks the extraction of a document yields, n of them
YieldedChunks(doc, n) ==
    [j \in 1..n |-> DocumentChunk(doc, 0, j - 1, <<"a">>, <<BoxAt(j)>>)]

\* what extract_document_chunks does for a document: it yields n chunks and
\* then ends or raises
ExtractionOutcomes == [n : 0..2, raises : BOOLEAN]

Listed(outcomes) ==
    [k \in 1..Len(outcomes) |->
        [ document_id |-> ListedId(k),
          chunks      |-> YieldedChunks(ListedId(k), outcomes[k].n),
          raises      |-> outcomes[k].raises ]]

\* list_documents(), cut to the limit argument
DocumentLists == { Listed(os) : os \in SeqsUpTo(ExtractionOutcomes, MaxDocs) }

BatchSizes == {2, 3}

\* the run starts after the services are set up and the documents listed
IndexStart ==
    /\ ipc = "loop"
    /\ doc_i = 1
    /\ gen_pos = 0
    /\ chunks_count = 0
    /\ batch = <<>>
    /\ total_chunks = 0
    /\ failed_docs = <<>>
    /\ attempted = <<>>
    /\ add_log = <<>>
    /\ collection = <<>>
    /\ written = <<>>

IndexInit ==
    /\ ChunkIdle
    /\ SearchIdle
    /\ LookupIdle
    /\ documents \in DocumentLists
    /\ batch_size \in BatchSizes
    /\ IndexStart
    /\ ChatIdle

AddEntry(chunks, ok) == [chunks |-> chunks, ok |-> ok]

\* faulty variant: the loop over the documents is left after a failure
ContinueFromMut(i, n) == n + 1

\* "continue" in the handler: the loop goes on with the document after the
\* i-th of n
ContinueFrom(i, n) == i + 1

\* faulty variant: the batch is added once it is over batch_size
BatchFullMut(b, size) == Len(b) > size

\* "if len(batch) >= batch_size:" after batch.append(chunk)
BatchFull(b, size) == Len(b) >= size

\* head of "for i, doc in enumerate(documents, 1)": the try body is entered
NextDocument ==
    /\ ipc = "loop"
    /\ doc_i <= Len(documents)
    /\ chunks_count' = 0
    /\ gen_pos' = 0
    /\ attempted' = Append(attempted, documents[doc_i].document_id)
    /\ ipc' = "extract"
    /\ UNCHANGED <<documents, batch_size, doc_i, batch, total_chunks,
                   failed_docs, add_log>>
    /\ UNCHANGED <<chunkVars, searchVars, lookupVars, storeVars, chatVars>>

\* one iteration of the loop over the generator; a full batch is added and
\* the add returns
TakeChunk ==
    /\ ipc = "extract"
    /\ gen_pos < Len(documents[doc_i].chunks)
    /\ chunks_count' = chunks_count + 1
    /\ gen_pos' = gen_pos + 1
    /\ IF BatchFull(Append(batch, documents[doc_i].chunks[gen_pos + 1]),
                    batch_size)
       THEN /\ collection' =
                  AfterAddChunksBatch(collection,
                      Append(batch, documents[doc_i].chunks[gen_pos + 1]))
            /\ written' = written \o
                  WrittenBy(Append(batch, documents[doc_i].chunks[gen_pos + 1]),
                            "add_chunks_batch")
            /\ add_log' = Append(add_log,
                  AddEntry(Append(batch, documents[doc_i].chunks[gen_pos + 1]), TRUE))
            /\ batch' = <<>>
       ELSE /\ batch' = Append(batch, documents[doc_i].chunks[gen_pos + 1])
            /\ UNCHANGED <<collection, written, add_log>>
    /\ UNCHANGED <<documents, batch_size, ipc, doc_i, total_chunks, failed_docs,
                   attempted>>
    /\ UNCHANGED <<chunkVars, searchVars, lookupVars, chatVars>>

\* the same iteration when the add of the full batch raises: the exception
\* is caught by the handler of the document, the batch is left as it is
TakeChunkAddRaises ==
    /\ ipc = "extract"
    /\ gen_pos < Len(documents[doc_i].chunks)
    /\ BatchFull(Append(batch, documents[doc_i].chunks[gen_pos + 1]), batch_size)
    /\ chunks_count' = chunks_count + 1
    /\ gen_pos' = gen_pos + 1
    /\ batch' = Append(batch, documents[doc_i].chunks[gen_pos + 1])
    /\ add_log' = Append(add_log,
          AddEntry(Append(batch, documents[doc_i].chunks[gen_pos + 1]), FALSE))
    /\ failed_docs' = Append(failed_docs,
          <<documents[doc_i].document_id, "add error">>)
    /\ doc_i' = ContinueFrom(doc_i, Len(documents))
    /\ ipc' = "loop"
    /\ UNCHANGED <<documents, batch_size, total_chunks, attempted>>
    /\ UNCHANGED <<chunkVars, searchVars, lookupVars, storeVars, chatVars>>

\* the generator is exhausted: total_chunks += chunks_count
ExtractionDone ==
    /\ ipc = "extract"
    /\ gen_pos = Len(documents[doc_i].chunks)
    /\ ~documents[doc_i].raises
    /\ total_chunks' = total_chunks + chunks_count
    /\ doc_i' = doc_i + 1
    /\ ipc' = "loop"
    /\ UNCHANGED <<documents, batch_size, gen_pos, chunks_count, batch,
                   failed_docs, attempted, add_log>>
    /\ UNCHANGED <<chunkVars, searchVars, lookupVars, storeVars, chatVars>>

\* the generator raises: failed_docs.append(...); continue
ExtractionRaises ==
    /\ ipc = "extract"
    /\ gen_pos = Len(documents[doc_i].chunks)
    /\ documents[doc_i].raises
    /\ failed_docs' = Append(failed_docs,
          <<documents[doc_i].document_id, "extraction error">>)
    /\ doc_i' = ContinueFrom(doc_i, Len(documents))
    /\ ipc' = "loop"
    /\ UNCHANGED <<documents, batch_size, gen_pos, chunks_count, batch,
                   total_chunks, attempted, add_log>>
    /\ UNCHANGED <<chunkVars, searchVars, lookupVars, storeVars, chatVars>>

\* after the loop: "if batch: add_chunks_batch(batch)", and the add returns
FinalFlush ==
    /\ ipc = "loop"
    /\ doc_i > Len(documents)
    /\ IF batch # <<>>
       THEN /\ collection' = AfterAddChunksBatch(collection, batch)
            /\ written' = written \o WrittenBy(batch, "add_chunks_batch")
            /\ add_log' = Append(add_log, AddEntry(batch, TRUE))
       ELSE UNCHANGED <<collection, written, add_log>>
    /\ ipc' = "done"
    /\ UNCHANGED <<documents, batch_size, doc_i, gen_pos, chunks_count, batch,
                   total_chunks, failed_docs, attempted>>
    /\ UNCHANGED <<chunkVars, searchVars, lookupVars, chatVars>>

\* the add after the loop raises: the exception leaves index_documents
FinalFlushRaises ==
    /\ ipc = "loop"
    /\ doc_i > Len(documents)
    /\ batch # <<>>
    /\ add_log' = Append(add_log, AddEntry(batch, FALSE))
    /\ ipc' = "aborted"
    /\ UNCHANGED <<documents, batch_size, doc_i, gen_pos, chunks_count, batch,
                   total_chunks, failed_docs, attempted>>
    /\ UNCHANGED <<chunkVars, searchVars, lookupVars, storeVars, chatVars>>

IndexNext ==
    \/ NextDocument
    \/ TakeChunk
    \/ TakeChunkAddRaises
    \/ ExtractionDone
    \/ ExtractionRaises
    \/ FinalFlush
    \/ FinalFlushRaises

IndexSpec == IndexInit /\ [][IndexNext]_vars

-----------------------------------------------------------------------------
(* index_documents with search and find_text_positions called meanwhile *)

\* a run over two documents: the first yields two chunks, the extraction of
\* the second raises after one chunk
ServedDocuments ==
    Listed(<< [n |-> 2, raises |-> FALSE], [n |-> 1, raises |-> TRUE] >>)

ServingInit ==
    /\ ChunkIdle
    /\ documents = ServedDocuments
    /\ batch_size = 2
    /\ IndexStart
    /\ ChatIdle
    /\ pdf_directory = [f \in {"101.pdf"} |-> <<RulePage, MarginPage>>]
    /\ lookup_call = NoLookup
    /\ lookup_out = Returned(<<>>)
    /\ listing = <<>>
    /\ spc = "idle"
    /\ results = QueryResult(<<>>, TRUE)
    /\ citations = <<>>
    /\ raised = "none"
    /\ call_log = <<>>

ServingNext ==
    \/ IndexNext
    \/ Query
    \/ Search
    \/ FindTextPositions

ServingSpec == ServingInit /\ [][ServingNext]_vars

-----------------------------------------------------------------------------
(* The chat router: chat, chat_stream and delete_session on the module's    *)
(* sessions dictionary.  The handlers run on one event loop: chat and       *)
(* delete_session contain no await and run in one step; the generator of   *)
(* chat_stream is suspended at each yield and at each sleep, and anything   *)
(* may run in between.                                                      *)

\* Most chat and chat_stream requests of one run.
MaxRequests == 3

\* request.message
Messages == {"position limits"}

\* the id the n-th call of uuid4 gives
SessionId(n) == "s" \o ToString(n)

\* request.session_id: None, the id of a session that was created, or an id
\* the router does not know
SessionArguments == {""} \cup { SessionId(n) : n \in 1..uuid_count } \cup {"unknown"}

\* what collection.query returns to the search of a request: no row, a row
\* as add_chunk writes it, a row whose metadata lack document_title
ChatQueryResults ==
    { QueryResult(<<>>, TRUE),
      QueryResult(<< Row("Position limits apply.", Metadata(BaseStored), 0) >>, TRUE),
      QueryResult(<< Row("Position limits apply.",
                         Without(Metadata(BaseStored), "document_title"), 0) >>,
                  TRUE) }

\* vector_service.search(...) on these rows
SearchOutcome(res) ==
    IF res.ids # <<>> THEN Assemble(res, 1, InitialCitations(<<>>))
    ELSE [exc |-> "none", citations |-> InitialCitations(<<>>)]

\* LLMService() and generate_response: a text of so many five-word pieces
\* (generate_response turns the errors of the model into a text itself), or
\* the ValueError of a missing API key
LlmOutcomes ==
    { [exc |-> "none", text |-> "", pieces |-> 0],
      [exc |-> "none",
       text |-> "Position limits are set by Rule 101 of the rulebook.",
       pieces |-> 2],
      [exc |-> "ValueError", text |-> "", pieces |-> 0] }

Message(role, content) == [role |-> role, content |-> content]

\* get_or_create_session: the id, the dictionary afterwards, the ids drawn
GetOrCreateSession(sess, session_id, drawn) ==
    IF session_id # "" /\ session_id \in DOMAIN sess
    THEN [id |-> session_id, sessions |-> sess, drawn |-> drawn]
    ELSE [id |-> SessionId(drawn + 1),
          sessions |-> [k \in DOMAIN sess \cup {SessionId(drawn + 1)} |->
                           IF k = SessionId(drawn + 1) THEN <<>> ELSE sess[k]],
          drawn |-> drawn + 1]

\* history.append(...) on the list a handler holds: the list of session id
\* when the dictionary still holds it, a list nothing refers to otherwise
AppendTo(sess, id, msgs) ==
    IF id \in DOMAIN sess THEN [sess EXCEPT ![id] = sess[id] \o msgs] ELSE sess

\* response_text of chat
ChatResponseText(llm, found) ==
    IF llm.exc = "none" THEN llm.text
    ELSE IF found # <<>> THEN "API key required. Sections found: 1."
    ELSE "API key required."

ChatInit ==
    /\ ChunkIdle
    /\ SearchIdle
    /\ LookupIdle
    /\ StoreIdle
    /\ IndexIdle
    /\ ChatIdle

\* the handler chat, whole: the user message is appended before the search
Chat ==
    /\ request_count < MaxRequests
    /\ \E session_id \in SessionArguments, message \in Messages,
          include_citations \in BOOLEAN, res \in ChatQueryResults,
          llm \in LlmOutcomes :
          LET got == GetOrCreateSession(sessions, session_id, uuid_count)
              with_user ==
                  AppendTo(got.sessions, got.id, <<Message("user", message)>>)
              found == IF include_citations THEN SearchOutcome(res)
                       ELSE [exc |-> "none", citations |-> <<>>]
          IN /\ uuid_count' = got.drawn
             /\ IF found.exc # "none"
                THEN /\ sessions' = with_user
                     /\ chat_status' = "500"
                ELSE /\ sessions' =
                          AppendTo(with_user, got.id,
                              <<Message("assistant",
                                        ChatResponseText(llm, found.citations))>>)
                     /\ chat_status' = "200"
    /\ request_count' = request_count + 1
    /\ UNCHANGED streams
    /\ UNCHANGED <<chunkVars, searchVars, lookupVars, storeVars, indexVars>>

\* a suspended generator of chat_stream: the session list it holds, the
\* message, where it is suspended, the response and the pieces still to send
Frame(id, message, at, text, left) ==
    [history |-> id, message |-> message, at |-> at, text |-> text, left |-> left]

\* "Add to history" of generate and the yield of the done event
AfterAppend(sess, frame, text) ==
    [ sessions |-> AppendTo(sess, frame.history,
                            << Message("user", frame.message),
                               Message("assistant", text) >>),
      frame |-> Frame(frame.history, frame.message, "done", text, 0) ]

\* generate from "Generate AI response" to its next yield
AfterGenerate(sess, frame, llm) ==
    IF llm.exc # "none"
    THEN [sessions |-> sess,
          frame |-> Frame(frame.history, frame.message, "no_key", "", 0)]
    ELSE IF llm.pieces = 0 THEN AfterAppend(sess, frame, llm.text)
    ELSE [sessions |-> sess,
          frame |-> Frame(frame.history, frame.message, "content", llm.text,
                          llm.pieces - 1)]

\* the dictionary of suspended generators with request r at frame
Suspend(r, frame) ==
    [k \in DOMAIN streams \cup {r} |-> IF k = r THEN frame ELSE streams[k]]

\* the dictionary without request r
Finish(r) == [k \in DOMAIN streams \ {r} |-> streams[k]]

\* a request to chat_stream: generate runs to its first yield
StreamStart ==
    /\ request_count < MaxRequests
    /\ \E session_id \in SessionArguments, message \in Messages,
          include_citations \in BOOLEAN, res \in ChatQueryResults,
          llm \in LlmOutcomes :
          LET got == GetOrCreateSession(sessions, session_id, uuid_count)
              found == IF include_citations THEN SearchOutcome(res)
                       ELSE [exc |-> "none", citations |-> <<>>]
              frame == Frame(got.id, message, "citations", "", 0)
              run == AfterGenerate(got.sessions, frame, llm)
          IN /\ uuid_count' = got.drawn
             /\ IF found.exc # "none"
                THEN /\ sessions' = got.sessions
                     /\ streams' = Suspend(request_count + 1,
                                           Frame(got.id, message, "error", "", 0))
                ELSE IF include_citations
                THEN /\ sessions' = got.sessions
                     /\ streams' = Suspend(request_count + 1, frame)
                ELSE /\ sessions' = run.sessions
                     /\ streams' = Suspend(request_count + 1, run.frame)
             /\ chat_status' = "200"
    /\ request_count' = request_count + 1
    /\ UNCHANGED <<chunkVars, searchVars, lookupVars, storeVars, indexVars>>

\* a suspended generator is resumed and runs to its next yield or to its end
StreamResume ==
    /\ \E r \in DOMAIN streams, llm \in LlmOutcomes :
          LET frame == streams[r]
              run == IF frame.at = "citations"
                     THEN AfterGenerate(sessions, frame, llm)
                     ELSE IF frame.at = "content" /\ frame.left > 0
                     THEN [sessions |-> sessions,
                           frame |-> Frame(frame.history, frame.message,
                                           "content", frame.text, frame.left - 1)]
                     ELSE AfterAppend(sessions, frame, frame.text)
          IN IF frame.at \in {"done", "error"}
             THEN /\ streams' = Finish(r)
                  /\ UNCHANGED sessions
             ELSE /\ streams' = Suspend(r, run.frame)
                  /\ sessions' = run.sessions
    /\ UNCHANGED <<chat_status, uuid_count, request_count>>
    /\ UNCHANGED <<chunkVars, searchVars, lookupVars, storeVars, indexVars>>

\* the client of a stream goes away: the suspended generator is closed
StreamClosed ==
    /\ \E r \in DOMAIN streams : streams' = Finish(r)
    /\ UNCHANGED <<sessions, chat_status, uuid_count, request_count>>
    /\ UNCHANGED <<chunkVars, searchVars, lookupVars, storeVars, indexVars>>

\* the handler delete_session
DeleteSession ==
    /\ \E session_id \in SessionArguments \ {""} :
          sessions' = IF session_id \in DOMAIN sessions
                      THEN [k \in DOMAIN sessions \ {session_id} |-> sessions[k]]
                      ELSE sessions
    /\ chat_status' = "200"
    /\ UNCHANGED <<streams, uuid_count, request_count>>
    /\ UNCHANGED <<chunkVars, searchVars, lookupVars, storeVars, indexVars>>

ChatNext ==
    \/ Chat
    \/ StreamStart
    \/ StreamResume
    \/ StreamClosed
    \/ DeleteSession

ChatSpec == ChatInit /\ [][ChatNext]_vars

-----------------------------------------------------------------------------
(* Vocabulary of the chunk builder's properties *)

Min(a, b) == IF a < b THEN a ELSE b

\* the spans the extractor kept for 1-indexed page p
SpansOfPage(p) == CollectSpans(pages[p])

\* pages whose span loop and trailing yield are over
FinishedPages == 1..page_num

\* positions in yielded of the chunks of page p, and their number
ChunksOf(p) == { k \in 1..Len(yielded) : yielded[k].page_number = p }

\* chunk k is the first chunk of its page
FirstOfPage(k) == k = 1 \/ yielded[k - 1].page_number # yielded[k].page_number

\* the spans of chunk k that were not seeded from the previous chunk
NewSrc(k) ==
    SubSeq(yield_log[k].src, yield_log[k].carried + 1, Len(yield_log[k].src))

\* NewSrc of the chunks lo..hi, concatenated
RECURSIVE NewSrcFrom(_, _)
NewSrcFrom(lo, hi) ==
    IF lo > hi THEN <<>> ELSE NewSrc(lo) \o NewSrcFrom(lo + 1, hi)

\* texts separated by single blanks
RECURSIVE SpaceJoin(_)
SpaceJoin(ts) ==
    IF ts = <<>> THEN ""
    ELSE IF Len(ts) = 1 THEN ts[1]
    ELSE SpaceJoin(SubSeq(ts, 1, Len(ts) - 1)) \o " " \o ts[Len(ts)]

RECURSIVE TotalLen(_)
TotalLen(ts) ==
    IF ts = <<>> THEN 0
    ELSE TotalLen(SubSeq(ts, 1, Len(ts) - 1)) + Len(ts[Len(ts)])

Box(b) == [x0 |-> b[1], y0 |-> b[2], x1 |-> b[3], y1 |-> b[4]]

\* the span texts of chunk k, read off the page through the chunk's sources
TextsOf(k) ==
    [i \in 1..Len(yield_log[k].src) |->
        SpansOfPage(yielded[k].page_number)[yield_log[k].src[i]].text]

ExampleRun ==
    pages = <<ExamplePage>> /\ chunk_size = 10 /\ chunk_overlap = 1

-----------------------------------------------------------------------------
(* Properties of the chunk builder *)

\* C1: for every finished page, the chunks of the page taken in order, each
\* without the leading spans seeded from the previous chunk, give back the
\* page's spans 1..n, each once and in order, with the page's texts and
\* boxes; and every chunk's text is the blank-separated join of its spans.
C1_NoSpanDroppedOrReordered ==
    /\ \A p \in FinishedPages :
          LET ks == ChunksOf(p)
              n  == Len(SpansOfPage(p))
          IN IF ks = {}
             THEN n = 0
             ELSE LET lo == CHOOSE k \in ks : \A j \in ks : k <= j
                      hi == CHOOSE k \in ks : \A j \in ks : k >= j
                  IN /\ ks = lo..hi
                     /\ NewSrcFrom(lo, hi) = [i \in 1..n |-> i]
    /\ \A k \in 1..Len(yielded) :
          /\ yielded[k].text = SpaceJoin(TextsOf(k))
          /\ yield_log[k].texts = TextsOf(k)

\* C1 witness: a finished page of five spans cut into several chunks, one of
\* which starts with seeded spans.
C1_Witness ==
    \E p \in FinishedPages :
        /\ Len(SpansOfPage(p)) = 5
        /\ Cardinality(ChunksOf(p)) >= 2
        /\ \E k \in ChunksOf(p) : yield_log[k].carried = 3

\* C2: every chunk that is not the first of its page starts with the last
\* min(3, n) spans (texts, boxes, positions) of the previous chunk, n being
\* the previous chunk's span count.
C2_OverlapContract ==
    \A k \in 2..Len(yielded) :
        ~FirstOfPage(k) =>
            LET prev == yield_log[k - 1]
                n    == Len(prev.texts)
                m    == Min(3, n)
            IN /\ yield_log[k].carried = m
               /\ Len(yield_log[k].texts) > m
               /\ SubSeq(yield_log[k].texts, 1, m) = SubSeq(prev.texts, n - m + 1, n)
               /\ SubSeq(yield_log[k].bboxes, 1, m) = SubSeq(prev.bboxes, n - m + 1, n)
               /\ SubSeq(yield_log[k].src, 1, m) = SubSeq(prev.src, n - m + 1, n)
               /\ SubSeq(yielded[k].positions, 1, m)
                    = SubSeq(yielded[k - 1].positions, n - m + 1, n)

\* C2 witness: a chunk following a chunk of four spans (three are carried) and
\* a chunk following a chunk of one span (one is carried) have both been seen.
C2_Witness ==
    /\ \E k \in 2..Len(yielded) :
          ~FirstOfPage(k) /\ Len(yield_log[k - 1].texts) = 4
    /\ \E k \in 2..Len(yielded) :
          ~FirstOfPage(k) /\ Len(yield_log[k - 1].texts) = 1

C4_Original ==
    \A k \in 1..Len(yielded) :
        (\E i \in 1..Len(yield_log[k].texts) :
            Len(yield_log[k].texts[i]) > chunk_size)
        => Len(yield_log[k].texts) = 1

\* C4 amended: a span longer than chunk_size enters a chunk whole, as that
\* chunk's last span, and every other span of that chunk was seeded from the
\* previous chunk of the page; it is the chunk's sole content when the chunk
\* is the first of its page.
C4_OversizedSpanClosesItsChunk ==
    \A k \in 1..Len(yielded) :
        \A i \in 1..Len(yield_log[k].texts) :
            (i > yield_log[k].carried /\ Len(yield_log[k].texts[i]) > chunk_size)
            => /\ i = Len(yield_log[k].texts)
               /\ yield_log[k].carried = i - 1
               /\ yield_log[k].texts[i] = TextsOf(k)[i]
               /\ FirstOfPage(k) => yield_log[k].texts = <<TextsOf(k)[i]>>

\* C4 witness: an oversized span that arrived after other spans of its page,
\* and one that opened its page.
C4_Witness ==
    /\ \E k \in 1..Len(yielded) :
          LET e == yield_log[k] IN
          /\ e.carried >= 1
          /\ Len(e.texts) = e.carried + 1
          /\ Len(e.texts[Len(e.texts)]) > chunk_size
    /\ \E k \in 1..Len(yielded) :
          /\ FirstOfPage(k)
          /\ Len(yield_log[k].texts) = 1
          /\ Len(yield_log[k].texts[1]) > chunk_size

\* C5: the chunk_index values of a document are 0, 1, 2, ... in yield order,
\* without a reset at a page boundary; each id is
\* {document_id}-p{page_number}-c{chunk_index} with the 1-indexed page the
\* chunk was built on; no two chunks share an id.
C5_SequentialIndexAndId ==
    /\ \A k \in 1..Len(yielded) :
          /\ yielded[k].chunk_index = k - 1
          /\ yielded[k].page_number = yield_log[k].page
          /\ yielded[k].page_number \in 1..Len(pages)
          /\ yielded[k].id = document_id \o "-p"
                               \o ToString(yielded[k].page_number) \o "-c"
                               \o ToString(yielded[k].chunk_index)
    /\ \A j, k \in 1..Len(yielded) : j # k => yielded[j].id # yielded[k].id
    /\ chunk_index = Len(yielded)

\* C5 witness: the first chunk of a later page carries an index above 0.
C5_Witness ==
    \E k \in 2..Len(yielded) :
        /\ FirstOfPage(k)
        /\ yielded[k].page_number >= 2
        /\ yielded[k].chunk_index >= 2

\* C6: every chunk has as many positions as spans joined into its text, the
\* i-th position is the box of the i-th span, and the list is not empty.
C6_PositionsMatchSpans ==
    \A k \in 1..Len(yielded) :
        /\ Len(yielded[k].positions) = Len(yield_log[k].src)
        /\ Len(yielded[k].positions) >= 1
        /\ yielded[k].text = SpaceJoin(TextsOf(k))
        /\ \A i \in 1..Len(yielded[k].positions) :
              yielded[k].positions[i]
                 = Box(SpansOfPage(yielded[k].page_number)[yield_log[k].src[i]].bbox)

\* C6 witness: a chunk of several spans with different boxes.
C6_Witness ==
    \E k \in 1..Len(yielded) :
        /\ Len(yielded[k].positions) >= 3
        /\ yielded[k].positions[1] # yielded[k].positions[2]

\* C7: every span and position of a chunk comes from the page named by its
\* page_number, the first chunk of a page holds no seeded span, and a page's
\* span loop starts from an empty accumulator.
C7_ChunksNeverSpanPages ==
    /\ \A k \in 1..Len(yielded) :
          LET sp == SpansOfPage(yielded[k].page_number) IN
          /\ yielded[k].page_number = yield_log[k].page
          /\ \A i \in 1..Len(yield_log[k].src) :
                /\ yield_log[k].src[i] \in 1..Len(sp)
                /\ yield_log[k].texts[i] = sp[yield_log[k].src[i]].text
                /\ yielded[k].positions[i] = Box(sp[yield_log[k].src[i]].bbox)
          /\ FirstOfPage(k) => yield_log[k].carried = 0
    /\ (pc = "span" /\ span_i = 1) =>
          /\ current_chunk_text = <<>>
          /\ current_chunk_positions = <<>>
          /\ current_length = 0

\* C7 witness: a second page yields its first chunk after the first page
\* ended with a chunk.
C7_Witness ==
    \E k \in 2..Len(yielded) :
        /\ yielded[k].page_number = 2
        /\ yielded[k - 1].page_number = 1
        /\ Len(yield_log[k - 1].texts) >= 2

-----------------------------------------------------------------------------
(* Vocabulary of the properties of search *)

SearchOver == spc \in {"returned", "raised"}

RowCount == Len(results.ids)

\* row i carries the metadata fields search reads with a subscript
CompleteRow(i) ==
    {"document_id", "document_title", "page_number"} \subseteq DOMAIN results.metadatas[i]

\* row i carries position metadata that is no serialized list of boxes
MalformedRow(i) ==
    /\ "positions" \in DOMAIN results.metadatas[i]
    /\ results.metadatas[i]["positions"] \in MalformedStored

\* the ids of the rows from i on that carry the required metadata
RECURSIVE CompleteIdsFrom(_)
CompleteIdsFrom(i) ==
    IF i > RowCount THEN <<>>
    ELSE IF CompleteRow(i) THEN <<results.ids[i]>> \o CompleteIdsFrom(i + 1)
    ELSE CompleteIdsFrom(i + 1)

CitationIds == [i \in 1..Len(citations) |-> citations[i].id]

-----------------------------------------------------------------------------
(* Properties of search *)

\* C8: when the position metadata of every row is well formed, search does
\* not fail; it returns the citations of exactly the rows that carry
\* document_id, document_title and page_number, skipping the others.
C8_MalformedRowSkipped ==
    (SearchOver /\ \A i \in 1..RowCount : ~MalformedRow(i)) =>
        /\ raised = "none"
        /\ CitationIds = CompleteIdsFrom(1)

\* C9: when every row carries the required metadata, search does not fail and
\* returns one citation per row; the citation of a row whose position
\* metadata is no serialized list of boxes has an empty position list.
C9_BadPositionsRecovered ==
    (SearchOver /\ \A i \in 1..RowCount : CompleteRow(i)) =>
        /\ raised = "none"
        /\ Len(citations) = RowCount
        /\ \A i \in 1..RowCount :
              MalformedRow(i) =>
                  /\ citations[i].id = results.ids[i]
                  /\ citations[i].positions = <<>>

\* C10: every relevance_score lies in [0, 1] (0..1000 thousandths), and of
\* two rows of a result the one with the smaller or equal distance has the
\* greater or equal score.
C10_ScoreBoundedAndMonotone ==
    spc = "returned" =>
        /\ Len(citations) = RowCount
        /\ \A i \in 1..Len(citations) :
              /\ citations[i].relevance_score >= 0
              /\ citations[i].relevance_score <= 1000
        /\ \A i, j \in 1..Len(citations) :
              (results.distances # <<>> /\ results.distances[i] <= results.distances[j])
              => citations[i].relevance_score >= citations[j].relevance_score
        /\ \A i \in 1..Len(citations) :
              results.distances = <<>> => citations[i].relevance_score = 1000

\* C10 witness: two citations of one result, the nearer row scoring strictly
\* higher, the farther row lying beyond distance 2 with score 0.
C10_Witness ==
    /\ spc = "returned"
    /\ Len(citations) = 2
    /\ results.distances # <<>>
    /\ results.distances[1] < results.distances[2]
    /\ results.distances[2] > 20000
    /\ citations[1].relevance_score > citations[2].relevance_score
    /\ citations[2].relevance_score = 0

\* the greater of two numbers
Max(a, b) == IF a > b THEN a ELSE b

\* clamp(1 - d/2, 0, 1) in 1/20000, for a distance d in 1/10000
ClampedScore(d) == Min(Max(20000 - d, 0), 20000)

\* r thousandths is a nearest thousandth of score (in 1/20000)
NearestThousandth(r, score) == 20 * r - score <= 10 /\ score - 20 * r <= 10

\* C11: the relevance_score of every citation is clamp(1 - d/2, 0, 1) of its
\* row's distance d, rounded to the nearest thousandth; distance 0 gives 1.0,
\* distance 2.0 gives 0.0 and every distance above 2.0 gives 0.0.
C11_ScoreIsClampedAndRounded ==
    (spc = "returned" /\ results.distances # <<>>) =>
        /\ Len(citations) = RowCount
        /\ \A i \in 1..Len(citations) :
              /\ NearestThousandth(citations[i].relevance_score,
                                   ClampedScore(results.distances[i]))
              /\ results.distances[i] = 0 => citations[i].relevance_score = 1000
              /\ results.distances[i] >= 20000 => citations[i].relevance_score = 0

\* C11 witness: a row at distance 0.0028, whose score 0.9986 is rounded up to
\* 0.999, and a row at distance 3.0 with score 0.
C11_Witness ==
    /\ spc = "returned"
    /\ Len(citations) = 2
    /\ results.distances = <<28, 30000>>
    /\ citations[1].relevance_score = 999
    /\ citations[2].relevance_score = 0

\* C12: the excerpt of a citation is the stored text itself when the text has
\* at most 300 characters, and its first 300 characters followed by "..."
\* when it has more.
C12_ExcerptTruncation ==
    spc = "returned" =>
        /\ Len(citations) = RowCount
        /\ \A i \in 1..Len(citations) :
              IF Len(results.documents[i]) <= 300
              THEN citations[i].excerpt = results.documents[i]
              ELSE /\ Len(citations[i].excerpt) = 303
                   /\ SubSeq(citations[i].excerpt, 1, 300)
                        = SubSeq(results.documents[i], 1, 300)
                   /\ SubSeq(citations[i].excerpt, 301, 303) = "..."

\* C12 witness: a text of exactly 300 characters returned as it is, next to a
\* text of 301 characters cut to 300 and marked.
C12_Witness ==
    /\ spc = "returned"
    /\ Len(citations) = 2
    /\ Len(results.documents[1]) = 300
    /\ citations[1].excerpt = results.documents[1]
    /\ Len(results.documents[2]) = 301
    /\ Len(citations[2].excerpt) = 303

\* the position list ps is what row i stores
StoresPositions(i, ps) ==
    /\ "positions" \in DOMAIN results.metadatas[i]
    /\ results.metadatas[i]["positions"] = JsonDumps(ps)

\* C13: a citation carries at most 5 positions; for a row that stores the
\* n positions ps they are ps[1..min(5, n)], in stored order.
C13_PositionsCapped ==
    spc = "returned" =>
        /\ Len(citations) = RowCount
        /\ \A i \in 1..Len(citations) :
              /\ Len(citations[i].positions) <= 5
              /\ \A ps \in PositionLists :
                    StoresPositions(i, ps) =>
                        citations[i].positions
                            = [k \in 1..Min(5, Len(ps)) |-> ps[k]]

\* C13 witness: a row that stores six positions cited with the first five,
\* next to a row that stores three cited with all of them.
C13_Witness ==
    /\ spc = "returned"
    /\ Len(citations) = 2
    /\ StoresPositions(1, [i \in 1..6 |-> PositionAt(10 * i)])
    /\ Len(citations[1].positions) = 5
    /\ citations[1].positions[5] = PositionAt(50)
    /\ StoresPositions(2, [i \in 1..3 |-> PositionAt(i)])
    /\ Len(citations[2].positions) = 3

\* C14: when search returns, the ids of its citations are the chunk ids of
\* the rows in the order of the rows, whatever their distances; for zero
\* rows search returns the empty list and raises nothing.
C14_RowOrderKept ==
    /\ spc = "returned" => CitationIds = results.ids
    /\ (SearchOver /\ RowCount = 0) => (spc = "returned" /\ citations = <<>>)

\* C14 witness: two rows, the farther one first, cited in that order.
C14_Witness ==
    /\ spc = "returned"
    /\ RowCount = 2
    /\ results.distances # <<>>
    /\ results.distances[1] > results.distances[2]
    /\ citations[1].id = results.ids[1]
    /\ citations[2].id = results.ids[2]
    /\ citations[1].id # citations[2].id

-----------------------------------------------------------------------------
(* Properties of the page lookups *)

\* the document of the last lookup has no file in the directory
DocumentMissing == PdfFileName(lookup_call.document_id) \notin DOMAIN pdf_directory

\* the pages of the document of the last lookup
LookedUpPages == pdf_directory[PdfFileName(lookup_call.document_id)]

\* the page number of the last lookup lies in [1, total_pages]
PageInRange == lookup_call.page_number \in 1..Len(LookedUpPages)

\* the searched text occurs nowhere on the looked-up page
NoOccurrence ==
    \A i \in 1..Len(LookedUpPages[lookup_call.page_number].spans) :
        ~Contains(LookedUpPages[lookup_call.page_number].spans[i].text,
                  lookup_call.search_text)

\* C15: find_text_positions never raises, and returns the empty list for a
\* missing document, for a page outside [1, total_pages] and for a text
\* without occurrence on the page; get_page_dimensions raises
\* FileNotFoundError for a missing document, ValueError for a page outside
\* [1, total_pages], and returns the page's dimensions otherwise.
C15_LookupFailureModes ==
    /\ lookup_call.op = "find_text_positions" =>
          /\ lookup_out.exc = "none"
          /\ IF DocumentMissing THEN lookup_out.value = <<>>
             ELSE IF ~PageInRange THEN lookup_out.value = <<>>
             ELSE NoOccurrence <=> lookup_out.value = <<>>
    /\ lookup_call.op = "get_page_dimensions" =>
          IF DocumentMissing THEN lookup_out.exc = "FileNotFoundError"
          ELSE IF ~PageInRange THEN lookup_out.exc = "ValueError"
          ELSE /\ lookup_out.exc = "none"
               /\ lookup_out.value.page_number = lookup_call.page_number
               /\ lookup_out.value.total_pages = Len(LookedUpPages)
               /\ lookup_out.value.width
                    = LookedUpPages[lookup_call.page_number].width
               /\ lookup_out.value.height
                    = LookedUpPages[lookup_call.page_number].height

\* C15 witness: a lookup of "margin" on the last page of an existing document,
\* a page on which the text does not occur, returned the empty list.
C15_Witness ==
    /\ lookup_call.op = "find_text_positions"
    /\ lookup_call.search_text = "margin"
    /\ ~DocumentMissing
    /\ lookup_call.page_number = Len(LookedUpPages)
    /\ NoOccurrence
    /\ lookup_out = Returned(<<>>)

-----------------------------------------------------------------------------
(* Properties of index_documents *)

DocIds == [k \in 1..Len(documents) |-> documents[k].document_id]

FailedIds == [k \in 1..Len(failed_docs) |-> failed_docs[k][1]]

\* no call of add_chunks_batch has raised
NoAddFailed == \A k \in 1..Len(add_log) : add_log[k].ok

\* documents whose try body is over
Handled == IF ipc = "extract" THEN doc_i - 1 ELSE Len(attempted)

\* the ids of the documents from k to n whose extraction raises
RECURSIVE RaisingIds(_, _)
RaisingIds(k, n) ==
    IF k > n THEN <<>>
    ELSE IF documents[k].raises
    THEN <<documents[k].document_id>> \o RaisingIds(k + 1, n)
    ELSE RaisingIds(k + 1, n)

\* the chunk is a row of the collection
Indexed(chunk) == \E r \in 1..Len(collection) : collection[r].id = chunk.id

-----------------------------------------------------------------------------
(* Properties of the collection's writers and of search on what they wrote *)

\* the position in the collection of the row with the given id
RowOfId(id) == CHOOSE k \in 1..Len(collection) : collection[k].id = id

\* the chunk the row with the given id was written from
ChunkOfId(id) == written[RowOfId(id)].chunk

\* C17: every row of the collection holds the id, the text and the
\* document_id, document_title, page_number and chunk_index of the chunk it
\* was written from, and add_chunk and add_chunks_batch store the same row
\* for that chunk; every citation search returns has the id, document_id,
\* document_title and page_number of the chunk its row was written from,
\* and as positions the first min(5, n) of the chunk's n positions, in order.
C17_StoredChunkRoundTrip ==
    /\ Len(written) = Len(collection)
    /\ \A k \in 1..Len(collection) :
          /\ collection[k].id = written[k].chunk.id
          /\ collection[k].document = written[k].chunk.text
          /\ collection[k].metadata["document_id"] = written[k].chunk.document_id
          /\ collection[k].metadata["document_title"]
                = written[k].chunk.document_title
          /\ collection[k].metadata["page_number"] = written[k].chunk.page_number
          /\ collection[k].metadata["chunk_index"] = written[k].chunk.chunk_index
          /\ DOMAIN collection[k].metadata
                = {"document_id", "document_title", "page_number", "chunk_index",
                   "positions"}
          /\ AfterAddChunk(<<>>, written[k].chunk) = <<collection[k]>>
          /\ AfterAddChunksBatch(<<>>, <<written[k].chunk>>) = <<collection[k]>>
    /\ spc # "raised"
    /\ spc = "returned" =>
          /\ Len(citations) = RowCount
          /\ \A i \in 1..Len(citations) :
                /\ citations[i].id \in StoredIds
                /\ citations[i].id = ChunkOfId(citations[i].id).id
                /\ citations[i].document_id
                      = ChunkOfId(citations[i].id).document_id
                /\ citations[i].document_title
                      = ChunkOfId(citations[i].id).document_title
                /\ citations[i].page_number
                      = ChunkOfId(citations[i].id).page_number
                /\ citations[i].positions
                      = [k \in 1..Min(5, Len(ChunkOfId(citations[i].id).positions)) |->
                            ChunkOfId(citations[i].id).positions[k]]

\* C17 witness: search returned the citations of a chunk of six positions
\* written by one writer and of a chunk of three positions written by the
\* other.
C17_Witness ==
    /\ spc = "returned"
    /\ Len(citations) = 2
    /\ Len(ChunkOfId(citations[1].id).positions) = 6
    /\ Len(citations[1].positions) = 5
    /\ Len(citations[2].positions) = 3
    /\ written[RowOfId(citations[1].id)].writer
          # written[RowOfId(citations[2].id)].writer

\* C18: of any two finished calls of search in the log, those that received
\* the same rows (ids, texts, metadata, distances) ended the same way, with
\* the same list of citations; and the list of a call holds nothing but the
\* citations of its own rows.
C18_SearchDeterministic ==
    /\ \A j, k \in 1..Len(call_log) :
          call_log[j].results = call_log[k].results =>
              /\ call_log[j].citations = call_log[k].citations
              /\ call_log[j].raised = call_log[k].raised
    /\ \A k \in 1..Len(call_log) :
          call_log[k].raised = "none" =>
              [i \in 1..Len(call_log[k].citations) |-> call_log[k].citations[i].id]
                  = call_log[k].results.ids

\* C18 witness: two calls in a row received the same two rows and returned
\* the same two citations.
C18_Witness ==
    /\ Len(call_log) = 2
    /\ Len(call_log[1].results.ids) = 2
    /\ call_log[1].results = call_log[2].results
    /\ Len(call_log[2].citations) = 2
    /\ call_log[1].citations = call_log[2].citations

-----------------------------------------------------------------------------
(* Properties of the reads during an indexing run *)

\* the chunks of the lists that add_chunks_batch took without raising
RECURSIVE AddedChunks(_)
AddedChunks(log) ==
    IF log = <<>> THEN <<>>
    ELSE (IF Head(log).ok THEN Head(log).chunks ELSE <<>>) \o AddedChunks(Tail(log))

\* the chunks the generators have yielded so far, in yield order
RECURSIVE YieldedUpTo(_)
YieldedUpTo(k) ==
    IF k = 0 THEN <<>>
    ELSE YieldedUpTo(k - 1)
            \o (IF k = doc_i /\ ipc = "extract"
                THEN SubSeq(documents[k].chunks, 1, gen_pos)
                ELSE documents[k].chunks)

\* the row a chunk is stored as
RowOfChunk(chunk) ==
    [ id |-> chunk.id, document |-> chunk.text,
      metadata |-> [ document_id    |-> chunk.document_id,
                     document_title |-> chunk.document_title,
                     page_number    |-> chunk.page_number,
                     chunk_index    |-> chunk.chunk_index,
                     positions      |-> JsonDumps(chunk.positions) ] ]

\* the collection holds what the adds of the run have put there, whatever
\* reads were made: the rows of the chunks of the lists added, in order; in
\* a run without a failed add these are the chunks yielded so far without
\* those of the pending batch
IndexHoldsRunContents ==
    /\ collection = [k \in 1..Len(AddedChunks(add_log)) |->
                        RowOfChunk(AddedChunks(add_log)[k])]
    /\ (NoAddFailed /\ ipc \in {"loop", "extract"}) =>
          AddedChunks(add_log) \o batch = YieldedUpTo(Len(attempted))
    /\ (NoAddFailed /\ ipc = "done") =>
          AddedChunks(add_log) = YieldedUpTo(Len(documents))

\* a step of search or of find_text_positions
ReadStep == searchVars' # searchVars \/ lookupVars' # lookupVars

\* C19: a step of search or of find_text_positions changes neither the
\* collection nor the PDF directory nor anything of the indexing run, and at
\* every moment of a run interleaved with such reads the collection holds
\* exactly what the adds of the run put there.
C19_ReadsAreStateless ==
    /\ []IndexHoldsRunContents
    /\ [][ReadStep => UNCHANGED <<collection, pdf_directory, indexVars>>]_vars

\* C19 witness: the run is over with three rows in the index, after a search
\* that saw two of them while the run was under way and a lookup that found
\* occurrences.
C19_Witness ==
    /\ ipc = "done"
    /\ Len(collection) = 3
    /\ \E k \in 1..Len(call_log) :
          /\ Len(call_log[k].results.ids) = 2
          /\ Len(call_log[k].citations) = 2
    /\ lookup_call.op = "find_text_positions"
    /\ lookup_out.value # <<>>

-----------------------------------------------------------------------------
(* The emission rule of the span loop *)

\* the last min(3, n) entries of a list of n
LastThree(seq) == SubSeq(seq, Len(seq) - Min(3, Len(seq)) + 1, Len(seq))

\* C20: in every iteration of the span loop a chunk is emitted exactly when
\* the accumulator is not empty and the summed text lengths of its spans
\* (seeded ones included, separators not) plus the length of the incoming
\* span exceed chunk_size; the emitted chunk is the accumulator, the new
\* accumulator is its last min(3, n) spans; and in either case the incoming
\* span is appended last, with the running length kept equal to the sum.
C20_EmissionRule ==
    [][ (pc = "span" /\ span_i' = span_i + 1) =>
          /\ current_length = TotalLen(current_chunk_text)
          /\ IF current_chunk_text # <<>>
                /\ TotalLen(current_chunk_text) + Len(page_spans[span_i].text)
                      > chunk_size
             THEN /\ Len(yielded') = Len(yielded) + 1
                  /\ yielded'[Len(yielded')].text = SpaceJoin(current_chunk_text)
                  /\ current_chunk_text'
                        = Append(LastThree(current_chunk_text),
                                 page_spans[span_i].text)
                  /\ current_chunk_positions'
                        = Append(LastThree(current_chunk_positions),
                                 page_spans[span_i].bbox)
             ELSE /\ yielded' = yielded
                  /\ current_chunk_text'
                        = Append(current_chunk_text, page_spans[span_i].text)
                  /\ current_chunk_positions'
                        = Append(current_chunk_positions, page_spans[span_i].bbox)
          /\ current_length' = TotalLen(current_chunk_text')
      ]_vars

\* C20 witness: an emission has just re-seeded the accumulator with three
\* spans and appended the incoming span, and the running length, seeded
\* spans included, is above chunk_size.
C20_Witness ==
    /\ pc = "span"
    /\ current_carried = 3
    /\ Len(current_chunk_text) = 4
    /\ current_length = TotalLen(current_chunk_text)
    /\ current_length > chunk_size
    /\ Len(yielded) >= 1

-----------------------------------------------------------------------------
(* Chunks per page, and termination *)

\* what holds of the chunks of the finished pages and of the chunks yielded
\* so far
ChunkCountsBounded ==
    /\ \A p \in FinishedPages :
          LET n == Len(SpansOfPage(p))
              c == Cardinality(ChunksOf(p))
          IN /\ n = 0 => c = 0
             /\ n >= 1 => (1 <= c /\ c <= n)
    /\ \A k \in 1..Len(yielded) :
          /\ Len(NewSrc(k)) >= 1
          /\ ~FirstOfPage(k) =>
                \A i \in 1..Len(yield_log[k - 1].src) :
                    yield_log[k - 1].src[i] < NewSrc(k)[1]
    /\ (pc = "page" /\ page_num >= 1 /\ current_chunk_text # <<>>) =>
          /\ yield_log # <<>>
          /\ yield_log[Len(yield_log)].page = page_num
          /\ yield_log[Len(yield_log)].texts = current_chunk_text

\* C21: a page without spans yields no chunk and a page of n >= 1 spans
\* yields between 1 and n chunks; every chunk holds a span that is not in
\* the previous chunk of its page (a later span of the page); an accumulator
\* left non-empty by the span loop is the last chunk yielded for the page;
\* and the generator, driven to exhaustion, finishes.
C21_ChunksPerPageAndTermination ==
    []ChunkCountsBounded /\ <>(pc = "done")

\* C21 witness: a finished run over a page without spans and a page whose
\* three spans made two chunks.
C21_Witness ==
    /\ pc = "done"
    /\ \E p \in FinishedPages :
          SpansOfPage(p) = <<>> /\ ChunksOf(p) = {}
    /\ \E p \in FinishedPages :
          Len(SpansOfPage(p)) = 3 /\ Cardinality(ChunksOf(p)) = 2

-----------------------------------------------------------------------------
(* Batching of the adds *)

\* the last list passed to add_chunks_batch
LastAdded(log) == log[Len(log)].chunks

\* what holds of the pending batch and of the lists added, while no add has
\* failed
BatchesCoverYield ==
    NoAddFailed =>
        /\ Len(batch) < batch_size
        /\ ipc \in {"loop", "extract"} =>
              /\ AddedChunks(add_log) \o batch = YieldedUpTo(Len(attempted))
              /\ \A k \in 1..Len(add_log) :
                    Len(add_log[k].chunks) = batch_size
        /\ ipc = "done" =>
              /\ AddedChunks(add_log) = YieldedUpTo(Len(documents))
              /\ \A k \in 1..Len(add_log) :
                    /\ k < Len(add_log) => Len(add_log[k].chunks) = batch_size
                    /\ Len(add_log[k].chunks) \in 1..batch_size
        /\ \A j, k \in 1..Len(AddedChunks(add_log)) :
              j # k => AddedChunks(add_log)[j].id # AddedChunks(add_log)[k].id

\* what holds of a step of a run in which no add fails
FlushStep ==
    NoAddFailed' =>
        /\ (ipc = "extract" /\ gen_pos' = gen_pos + 1) =>
              LET chunk == documents[doc_i].chunks[gen_pos + 1] IN
              IF Len(batch) + 1 = batch_size
              THEN /\ add_log' = Append(add_log, AddEntry(Append(batch, chunk), TRUE))
                   /\ batch' = <<>>
              ELSE /\ add_log' = add_log
                   /\ batch' = Append(batch, chunk)
        /\ (ipc = "loop" /\ ipc' = "done") =>
              /\ doc_i > Len(documents)
              /\ IF batch # <<>>
                 THEN add_log' = Append(add_log, AddEntry(batch, TRUE))
                 ELSE add_log' = add_log
        /\ (ipc' = ipc /\ ipc = "loop") => add_log' = add_log
        /\ (ipc = "loop" /\ ipc' = "extract") => add_log' = add_log /\ batch' = batch
        /\ (ipc = "extract" /\ ipc' = "loop") => add_log' = add_log /\ batch' = batch

\* C22: in a run in which no add fails, the lists passed to add_chunks_batch,
\* concatenated and followed by the pending batch, are the chunks yielded so
\* far, in yield order across documents, each once; every add made inside
\* the loop passes exactly batch_size chunks and empties the batch; the
\* pending batch always holds fewer than batch_size chunks; the add after
\* the loop is made exactly when the batch is not empty and passes the batch.
C22_BatchesCoverYieldInOrder ==
    []BatchesCoverYield /\ [][FlushStep]_vars

\* C22 witness: a finished run without a failed add whose first add passed
\* chunks of two documents and whose last add, after the loop, passed fewer
\* than batch_size chunks; the extraction of a document raised on the way.
C22_Witness ==
    /\ ipc = "done"
    /\ NoAddFailed
    /\ Len(add_log) >= 2
    /\ add_log[1].chunks[1].document_id
          # add_log[1].chunks[Len(add_log[1].chunks)].document_id
    /\ Len(LastAdded(add_log)) < batch_size
    /\ failed_docs # <<>>

-----------------------------------------------------------------------------
(* How far a chunk can exceed chunk_size *)

\* the summed text lengths of the spans of chunk k, seeded ones included
SizeOf(k) == TotalLen(yield_log[k].texts)

\* C23: a chunk whose summed span text length is above chunk_size holds
\* exactly one span that was not seeded, its last, and before it the last
\* min(3, n) spans of the previous chunk of the page, or nothing when it is
\* the first chunk of its page; a chunk that holds two or more spans that
\* were not seeded has a summed length of at most chunk_size.
C23_SizeExceededByOneSpan ==
    \A k \in 1..Len(yielded) :
        /\ SizeOf(k) > chunk_size =>
              /\ Len(NewSrc(k)) = 1
              /\ Len(yield_log[k].texts) = yield_log[k].carried + 1
              /\ IF FirstOfPage(k)
                 THEN yield_log[k].carried = 0
                 ELSE /\ yield_log[k].carried = Len(LastThree(yield_log[k - 1].texts))
                      /\ SubSeq(yield_log[k].texts, 1, yield_log[k].carried)
                            = LastThree(yield_log[k - 1].texts)
                      /\ SubSeq(yield_log[k].src, 1, yield_log[k].carried)
                            = LastThree(yield_log[k - 1].src)
        /\ Len(NewSrc(k)) >= 2 => SizeOf(k) <= chunk_size

\* C23 witness: a chunk of two new spans that fills chunk_size exactly,
\* followed on its page by a chunk that exceeds chunk_size with two seeded
\* spans and one new span.
C23_Witness ==
    \E k \in 2..Len(yielded) :
        /\ ~FirstOfPage(k)
        /\ Len(NewSrc(k - 1)) = 2
        /\ SizeOf(k - 1) = chunk_size
        /\ SizeOf(k) > chunk_size
        /\ yield_log[k].carried = 2
        /\ Len(NewSrc(k)) = 1

-----------------------------------------------------------------------------
(* The reported total and the chunks of failed documents *)

\* the chunks of all lists passed to add_chunks_batch
RECURSIVE HandedChunks(_)
HandedChunks(log) ==
    IF log = <<>> THEN <<>> ELSE Head(log).chunks \o HandedChunks(Tail(log))

\* C24: at the end of a run (here: one in which no add has failed),
\* total_chunks is the number of chunks passed to add_chunks_batch, and no
\* chunk of a document recorded in failed_docs was passed to it or is a row
\* of the collection.
C24_TotalMatchesIndexed ==
    (ipc = "done" /\ NoAddFailed) =>
        /\ total_chunks = Len(HandedChunks(add_log))
        /\ \A f \in 1..Len(failed_docs) :
              /\ \A j \in 1..Len(HandedChunks(add_log)) :
                    HandedChunks(add_log)[j].document_id # FailedIds[f]
              /\ \A r \in 1..Len(collection) :
                    collection[r].metadata.document_id # FailedIds[f]

-----------------------------------------------------------------------------
(* Listed document ids, files and urls *)

\* the listed documents that carry the id of the last call
ListedAs(doc) == { k \in 1..Len(listing) : listing[k].document_id = doc }

\* C25: get_pdf_path of a listed document_id gives the file the document was
\* listed from, and the pdf_url search builds from a listed document_id is
\* the pdf_url list_documents reports for that document.
C25_DocumentIdsRoundTrip ==
    /\ lookup_call.op = "get_pdf_path" =>
          \A k \in ListedAs(lookup_call.document_id) :
              lookup_out.value = listing[k].filename
    /\ lookup_call.op = "pdf_url" =>
          \A k \in ListedAs(lookup_call.document_id) :
              lookup_out.value = listing[k].pdf_url

-----------------------------------------------------------------------------
(* Session histories *)

\* the roles of a history are user, assistant, user, assistant, ...
Alternates(history) ==
    /\ Len(history) % 2 = 0
    /\ \A i \in 1..Len(history) :
          history[i].role = (IF i % 2 = 1 THEN "user" ELSE "assistant")

\* C26: whatever chat, chat_stream and delete_session requests were made and
\* however they ended, the stored history of every session is user,
\* assistant, user, assistant, ...: it starts with a user message and ends
\* with an assistant message.
C26_HistoryAlternates ==
    \A id \in DOMAIN sessions : Alternates(sessions[id])

====
